---- MODULE Spec2Model ----
(***************************************************************************)
(* The RISC-V instruction table generator (envi/archs/riscv/gen.py) and    *)
(* the decoder built on its output (envi/archs/riscv/disasm.py,            *)
(* operands.py), as a state machine: scrape the manual's rows into the     *)
(* instruction table, export it, build a RiscVDisasm over it, and decode.  *)
(***************************************************************************)
EXTENDS Integers, Sequences, FiniteSets, TLC

(***************************************************************************)
(* Python integer and string primitives used by the code.                  *)
(***************************************************************************)
\* TLC's integers stop at 2^31 - 1 and a mask or an instruction word has 32
\* bits, so a Python int that holds a mask, a value or a word is kept as the
\* set of its one bits (bit 0 the least significant): 0x13 is {0, 1, 4}.
RECURSIVE Pow2(_)
Pow2(n) == IF n = 0 THEN 1 ELSE 2 * Pow2(n - 1)

\* The bits of a small number
IntBits(n) == {i \in 0..30 : (n \div Pow2(i)) % 2 = 1}

\* a & b
BitAnd(a, b) == a \cap b

\* v >> n
ShiftRight(v, n) == {b - n : b \in {x \in v : x >= n}}

\* v & ~m
BitClear(v, m) == v \ m

\* a < b
SetMax(S) == CHOOSE x \in S : \A y \in S : y <= x
IntLess(a, b) == a # b /\ SetMax((a \ b) \cup (b \ a)) \in b

\* Proper bit-subset of masks: every bit of a is a bit of b, and b has more.
MaskSubset(a, b) == a # b /\ BitAnd(a, b) = a

\* count_bits: the number of '1' characters of format(value, 'b')
count_bits(value) == Cardinality(value)

\* A token of the manual is a sequence of symbols: a literal is spelled
\* digit by digit (<<"1","0">>), a name is one opaque symbol (<<"rd">>).
BinDigits == {"0", "1"}
DecDigits == {"0", "1", "2", "3", "4", "5", "6", "7", "8", "9"}

DigitVal(c) ==
    CASE c = "0" -> 0 [] c = "1" -> 1 [] c = "2" -> 2 [] c = "3" -> 3
      [] c = "4" -> 4 [] c = "5" -> 5 [] c = "6" -> 6 [] c = "7" -> 7
      [] c = "8" -> 8 [] c = "9" -> 9

\* _binvaluepat: ^[01]+$        _decvaluepat: ^[0-9]+$
binvaluepat(s) == Len(s) > 0 /\ \A i \in 1..Len(s) : s[i] \in BinDigits
decvaluepat(s) == Len(s) > 0 /\ \A i \in 1..Len(s) : s[i] \in DecDigits

\* int(s) of a decimal digit string (a small number)
RECURSIVE ParseDec(_)
ParseDec(s) ==
    IF Len(s) = 0 THEN 0
    ELSE 10 * ParseDec(SubSeq(s, 1, Len(s) - 1)) + DigitVal(s[Len(s)])

\* int(s, 2) of a binary digit string: the last character is bit 0
ParseBin(s) == {Len(s) - i : i \in {k \in 1..Len(s) : s[k] = "1"}}

\* bin(n)[2:]: the binary digits of n without leading zeros ("0" for 0)
RECURSIVE BinStr(_)
BinStr(n) ==
    IF n < 2 THEN << IF n = 1 THEN "1" ELSE "0" >>
    ELSE BinStr(n \div 2) \o << IF n % 2 = 1 THEN "1" ELSE "0" >>

\* '1' * n and '0' * n
RECURSIVE Repeat(_, _)
Repeat(c, n) == IF n = 0 THEN << >> ELSE << c >> \o Repeat(c, n - 1)

\* A Field's value is a token (str) or, for the synthesized jumps, an int.
StrVal(s) == [isint |-> FALSE, n |-> 0, s |-> s]
IntVal(n) == [isint |-> TRUE, n |-> n, s |-> << >>]

(***************************************************************************)
(* gen.py: the field classifier and the encoding compiler.                 *)
(***************************************************************************)
\* The names the patterns of gen.py accept, for the tokens the rows below use
\* (_immvalues, _regvalues, _reqbinfields + 'rm').
ImmFieldNames ==
    {"imm", "imm[11:0]", "imm[20|10:1|11|19:12]", "imm[5]", "offset", "jump target"}
ImmValueNames ==
    ImmFieldNames \cup
    {"shamt", "fm", "pred", "succ", "aq", "rl", "csr", "uimm", "nzimm[5]",
     "nzimm[4:0]", "nzuimm[5]", "uimm[5:3]", "uimm[2|6]", "uimm[7:6]"}
RegFieldNames ==
    {"rs1", "rs2", "rd", "rd/rs1", "\\rsoneprime", "\\rstwoprime", "\\rdprime"}
RegValueNames ==
    RegFieldNames \cup {"rs1$\\neq$0", "rs2$\\neq$0", "rd$\\neq$0", "rs1/rd$\\neq$0"}
PrimeNames == {"\\rsoneprime", "\\rstwoprime", "\\rdprime"}
ReqBinNames == {"funct2", "funct3", "funct4", "funct6", "funct7", "opcode", "op", "rm"}

\* _immvaluepat / _regvaluepat / _reqbinvaluepat applied to a token
immvaluepat(tok) == Len(tok) = 1 /\ tok[1] \in ImmValueNames
regvaluepat(tok) == Len(tok) = 1 /\ tok[1] \in RegValueNames
reqbinvaluepat(tok) ==
    \/ Len(tok) = 1 /\ tok[1] \in ReqBinNames
    \/ binvaluepat(tok)
    \/ decvaluepat(tok)

\* get_field_type with a default kind: a token no pattern takes is a CONST
get_field_type_default(field) ==
    IF immvaluepat(field) THEN "IMM"
    ELSE IF regvaluepat(field)
         THEN (IF field[1] \in PrimeNames THEN "C_REG" ELSE "REG")
    ELSE IF field = <<"opcode">> THEN "OPCODE"
    ELSE IF field = <<"op">> THEN "C_OPCODE"
    ELSE IF field = <<"rm">> THEN "RM"
    ELSE "CONST"

\* get_field_type: the OpcodeType of a token, "raise" for an unknown token
get_field_type(field) ==
    IF immvaluepat(field) THEN "IMM"
    ELSE IF regvaluepat(field)
         THEN (IF field[1] \in PrimeNames THEN "C_REG" ELSE "REG")
    ELSE IF reqbinvaluepat(field)
         THEN (IF field = <<"opcode">> THEN "OPCODE"
               ELSE IF field = <<"op">> THEN "C_OPCODE"
               ELSE IF field = <<"rm">> THEN "RM"
               ELSE "CONST")
    ELSE "raise"

\* Field(value, type, columns, bits, mask, shift)
Field(value, type, columns, bits, mask, shift) ==
    [value |-> value, type |-> type, columns |-> columns, bits |-> bits,
     mask |-> mask, shift |-> shift]

\* get_field_info: instr_fields is a sequence of <<size, token>>, columns the
\* start bit of each column of the live header; col is the 0-based column
\* index the loop has reached.
RECURSIVE field_info_loop(_, _, _, _)
field_info_loop(instr_fields, columns, i, col) ==
    IF i > Len(instr_fields) THEN << >>
    ELSE LET size  == instr_fields[i][1]
             value == instr_fields[i][2]
             start == columns[col + 1]
             ncol  == col + size
             end   == IF ncol < Len(columns) THEN columns[ncol + 1] ELSE -1
             field_bits  == start - end
             field_shift == end + 1
             field_mask  == Pow2(field_bits) - 1
         IN  << Field(StrVal(value), get_field_type(value), size, field_bits,
                      field_mask, field_shift) >>
             \o field_info_loop(instr_fields, columns, i + 1, ncol)

get_field_info(instr_fields, columns) ==
    LET fields == field_info_loop(instr_fields, columns, 1, 0)
    IN  [ok |-> \A i \in 1..Len(fields) : fields[i].type # "raise",
         fields |-> fields]

ConstTypes == {"CONST", "OPCODE", "C_OPCODE"}

\* The characters one field appends to the value string, <<"raise">> when the
\* constant is neither an int nor a binary or decimal literal.
field_value_bits(field) ==
    IF field.type \in ConstTypes
    THEN IF field.value.isint THEN BinStr(field.value.n)
         ELSE IF binvaluepat(field.value.s) THEN field.value.s
         ELSE IF decvaluepat(field.value.s) THEN BinStr(ParseDec(field.value.s))
         ELSE <<"raise">>
    ELSE Repeat("0", field.bits)

field_mask_bits(field) ==
    IF field.type \in ConstTypes THEN Repeat("1", field.bits)
    ELSE Repeat("0", field.bits)

RECURSIVE concat_bits(_, _)
concat_bits(fields, fromValue) ==
    IF Len(fields) = 0 THEN << >>
    ELSE (IF fromValue THEN field_value_bits(Head(fields))
          ELSE field_mask_bits(Head(fields)))
         \o concat_bits(Tail(fields), fromValue)

\* get_instr_mask: (int(mask, 2), int(value, 2)) of the concatenated strings
get_instr_mask(fields) ==
    LET mask  == concat_bits(fields, FALSE)
        value == concat_bits(fields, TRUE)
        ok    == \A i \in 1..Len(value) : value[i] # "raise"
    IN  [ok |-> ok,
         mask |-> ParseBin(mask),
         value |-> IF ok THEN ParseBin(value) ELSE {}]

\* get_instr_flags: the envi.IF_* names or-ed together (the empty set for 0)
get_instr_flags(name, fields, priv) ==
    LET flags ==
          IF name \in {"J", "JR", "C.JR", "C.J"} THEN {"IF_CALL", "IF_NOFALL"}
          ELSE IF name \in {"JAL", "JALR", "C.JAL", "C.JALR"} THEN {"IF_CALL"}
          ELSE IF name \in {"BEQ", "BNE", "BLT", "BGE", "BLTU", "BGEU",
                            "C.BNEZ", "C.BEQZ"} THEN {"IF_COND", "IF_BRANCH"}
          ELSE {}
    IN  IF priv THEN flags \cup {"IF_PRIV"} ELSE flags

\* Op(name, cat, form, mask, value, fields, flags, notes)
Op(name, cat, form, mask, value, fields, flags, notes) ==
    [name |-> name, cat |-> cat, form |-> form, mask |-> mask, value |-> value,
     fields |-> fields, flags |-> flags, notes |-> notes]

\* The instruction table instrs: a dict of dicts, cat -> name -> Op, kept in
\* insertion order: a sequence of [cat, ops], ops a sequence of Op.
CatIndex(instrs, cat) ==
    IF \E i \in 1..Len(instrs) : instrs[i].cat = cat
    THEN CHOOSE i \in 1..Len(instrs) : instrs[i].cat = cat
    ELSE 0

OpNames(ops) == {ops[i].name : i \in 1..Len(ops)}

CatOps(instrs, cat) ==
    IF CatIndex(instrs, cat) = 0 THEN << >> ELSE instrs[CatIndex(instrs, cat)].ops

\* instrs[cat][name] = op
PutOp(instrs, cat, op) ==
    LET withCat == IF CatIndex(instrs, cat) = 0
                   THEN Append(instrs, [cat |-> cat, ops |-> << >>])
                   ELSE instrs
        k   == CatIndex(withCat, cat)
        ops == withCat[k].ops
        new == IF op.name \in OpNames(ops)
               THEN [i \in 1..Len(ops) |-> IF ops[i].name = op.name THEN op ELSE ops[i]]
               ELSE Append(ops, op)
    IN  [withCat EXCEPT ![k].ops = new]

\* The loop of add_instr over cat_list: "assert" when the name is already in
\* a category, the table with the op added to every category otherwise.
RECURSIVE add_to_cats(_, _, _, _, _, _, _, _, _)
add_to_cats(instrs, name, cat_list, form, mask, value, fields, flags, notes) ==
    IF Len(cat_list) = 0 THEN [status |-> "added", instrs |-> instrs]
    ELSE LET cat == Head(cat_list)
         IN  IF name \in OpNames(CatOps(instrs, cat))
             THEN [status |-> "assert", instrs |-> instrs]
             ELSE add_to_cats(
                      PutOp(instrs, cat,
                            Op(name, cat, form, mask, value, fields, flags, notes)),
                      name, Tail(cat_list), form, mask, value, fields, flags, notes)

\* add_instr: status is "added", "skipped" (a HINT row), "assert" (the last
\* field is no CONST, or the name is a duplicate) or "raise" (no mask can be
\* made, or no category is known).
add_instr(instrs, name, cat_list, form, fields, notes, priv) ==
    IF Len(fields) = 0 \/ fields[Len(fields)].type # "CONST"
    THEN [status |-> "assert", instrs |-> instrs]
    ELSE IF \E i \in 1..Len(notes) : notes[i] = "HINT"
    THEN [status |-> "skipped", instrs |-> instrs]
    ELSE LET m == get_instr_mask(fields)
             op_flags == get_instr_flags(name, fields, priv)
         IN  IF ~m.ok \/ Len(cat_list) = 0
             THEN [status |-> "raise", instrs |-> instrs]
             ELSE add_to_cats(instrs, name, cat_list, form, m.mask, m.value,
                              fields, op_flags, notes)

(***************************************************************************)
(* gen.py: find_form, the Form of a row.                                   *)
(***************************************************************************)
\* _immfieldpat, _regfieldpat, _reqbinfieldpat, _binfieldpat and
\* _regvalueformmatchpat applied to a token
immfieldpat(tok) == Len(tok) = 1 /\ tok[1] \in ImmFieldNames
regfieldpat(tok) == Len(tok) = 1 /\ tok[1] \in RegFieldNames
reqbinfieldpat(tok) == Len(tok) = 1 /\ tok[1] \in ReqBinNames \ {"rm"}
binfieldpat(tok) == regfieldpat(tok) \/ immfieldpat(tok)
regvalueformmatchpat(tok) == regvaluepat(tok) \/ tok = <<"uimm">>

\* s.startswith('imm'), 'prime' in s, and value in field (a substring) for
\* the register field names
startswith_imm(tok) ==
    Len(tok) = 1 /\ tok[1] \in {"imm", "imm[11:0]", "imm[20|10:1|11|19:12]", "imm[5]"}
has_prime(tok) == Len(tok) = 1 /\ tok[1] \in PrimeNames
reg_in(value, field) ==
    \/ value = field
    \/ value \in {<<"rd">>, <<"rs1">>} /\ field = <<"rd/rs1">>

\* An element of the row find_form works on: a (size, token) tuple, or,
\* after a rewrite, a list of such tuples. NotStr stands for what [1] of a
\* list gives, a tuple where a str is expected.
Plain(cell) == [list |-> FALSE, cells |-> <<cell>>]
Grouped(cells) == [list |-> TRUE, cells |-> cells]
NotStr == <<"(tuple)">>
field_name(e) == IF e.list THEN NotStr ELSE e.cells[1][2]

RECURSIVE sum_sizes(_)
sum_sizes(cells) == IF Len(cells) = 0 THEN 0 ELSE Head(cells)[1] + sum_sizes(Tail(cells))

RECURSIVE join_tokens(_)
join_tokens(cells) ==
    IF Len(cells) = 0 THEN << >> ELSE Head(cells)[2] \o join_tokens(Tail(cells))

\* fields[a:b] made one list element (a, b count from 1, both included)
group_fields(fields, a, b) ==
    SubSeq(fields, 1, a - 1)
        \o << Grouped([i \in 1..(b - a + 1) |-> fields[a + i - 1].cells[1]]) >>
        \o SubSeq(fields, b + 1, Len(fields))

\* The special cases at the head of find_form: FENCE's fm/pred/succ, the
\* aq/rl bits, shamt, and the split rd'/rs1' field of the CB rows
rewrite_fields(fields) ==
    LET n == Len(fields)
        names == [i \in 1..n |-> field_name(fields[i])]
        head3 == IF n >= 3 THEN <<names[1], names[2], names[3]>> ELSE << >>
    IN  IF head3 \in { << <<"fm">>, <<"pred">>, <<"succ">> >>,
                       << <<"1","0","0","0">>, <<"0","0","1","1">>, <<"0","0","1","1">> >>,
                       << <<"0","0","0","0">>, <<"0","0","0","1">>, <<"0","0","0","0">> >> }
        THEN [exc |-> "", fields |-> group_fields(fields, 1, 3)]
        ELSE IF n >= 3 /\ names[2] = <<"aq">> /\ names[3] = <<"rl">>
        THEN [exc |-> "", fields |-> group_fields(fields, 1, 3)]
        ELSE IF n < 2 THEN [exc |-> "IndexError", fields |-> fields]
        ELSE IF names[2] = <<"shamt">>
        THEN [exc |-> "", fields |-> group_fields(fields, 1, 2)]
        ELSE IF names[2] \in {<<"imm[5]">>, <<"nzuimm[5]">>}
        THEN IF n < 3 THEN [exc |-> "IndexError", fields |-> fields]
             ELSE IF fields[3].list THEN [exc |-> "TypeError", fields |-> fields]
             ELSE IF Len(names[3]) = 2 /\ binvaluepat(names[3])
             THEN [exc |-> "", fields |-> group_fields(fields, 2, 3)]
             ELSE [exc |-> "", fields |-> fields]
        ELSE [exc |-> "", fields |-> fields]

\* One position of the zip(fields, form.fields) loop: does the row's element
\* go with the Form's field
field_matches(value, field) ==
    LET f == field.value.s
        v == value.cells[1][2]
    IN  IF ~value.list
        THEN /\ value.cells[1][1] = field.columns
             /\ IF reqbinfieldpat(f) THEN reqbinvaluepat(v)
                ELSE \/ binvaluepat(v) /\ binfieldpat(f)
                     \/ decvaluepat(v) /\ binfieldpat(f)
                     \/ /\ immvaluepat(v) /\ immfieldpat(f)
                        /\ \/ immfieldpat(v) /\ v = f
                           \/ ~immfieldpat(v)
                           \/ ~startswith_imm(f)
                           \/ startswith_imm(v) /\ f = <<"imm">>
                     \/ /\ regvalueformmatchpat(v) /\ regfieldpat(f)
                        /\ \/ regfieldpat(v) /\ reg_in(v, f)
                           \/ ~regfieldpat(v)
                           \/ has_prime(v) /\ has_prime(f)
                        /\ has_prime(v) = has_prime(f)
        ELSE /\ sum_sizes(value.cells) = field.columns
             /\ \/ binvaluepat(v) /\ reqbinfieldpat(f)
                \/ binfieldpat(f)

\* len(fields) == len(form.fields) and the zip loop runs to its else
form_matches(fields, form) ==
    /\ Len(fields) = Len(form.fields)
    /\ \A i \in 1..Len(fields) : field_matches(fields[i], form.fields[i])

\* first_form with the loop left running to its end: the position of the
\* last Form that matches
last_form(fields, forms) ==
    IF \E i \in 1..Len(forms) : form_matches(fields, forms[i])
    THEN CHOOSE i \in 1..Len(forms) :
             /\ form_matches(fields, forms[i])
             /\ \A j \in (i + 1)..Len(forms) : ~form_matches(fields, forms[j])
    ELSE 0

\* for form_name, form in forms.items(): the position of the first Form that
\* matches, 0 when the loop runs out
first_form(fields, forms) ==
    IF \E i \in 1..Len(forms) : form_matches(fields, forms[i])
    THEN CHOOSE i \in 1..Len(forms) :
             /\ form_matches(fields, forms[i])
             /\ \A j \in 1..(i - 1) : ~form_matches(fields, forms[j])
    ELSE 0

\* One of the two loops that look for a run of binary fields, from position
\* i (counting from 1) with idx_start as found so far (0 for None): err when
\* the loop reads [1] of a list element, else idx_start and idx_stop.
RECURSIVE binary_run(_, _, _)
binary_run(fields, i, start) ==
    IF i > Len(fields) THEN [err |-> FALSE, start |-> start, stop |-> 0]
    ELSE IF fields[i].list THEN [err |-> TRUE, start |-> start, stop |-> 0]
    ELSE IF binvaluepat(field_name(fields[i]))
    THEN binary_run(fields, i + 1, IF start = 0 THEN i ELSE start)
    ELSE IF start # 0 THEN [err |-> FALSE, start |-> start, stop |-> i]
    ELSE binary_run(fields, i + 1, start)

\* collapsed_fields with the fields of the run left in place behind the
\* composite field, emptied, so that the row keeps its length
collapse_fields_in_place(fields, start, stop) ==
    LET run == [i \in 1..(stop - start) |-> fields[start + i - 1].cells[1]]
    IN  SubSeq(fields, 1, start - 1)
            \o << Plain(<<sum_sizes(run), join_tokens(run)>>) >>
            \o [i \in 1..(stop - start - 1) |-> Plain(<<0, <<"">> >>)]
            \o SubSeq(fields, stop, Len(fields))

\* collapsed_fields: fields[idx_start:idx_stop] made one field
collapse_fields(fields, start, stop) ==
    LET run == [i \in 1..(stop - start) |-> fields[start + i - 1].cells[1]]
    IN  SubSeq(fields, 1, start - 1)
            \o << Plain(<<sum_sizes(run), join_tokens(run)>>) >>
            \o SubSeq(fields, stop, Len(fields))

\* find_form on a row of elements: status is "found" (with the Form's name
\* and the row as it was matched), "noform" (the exception 'no form match
\* found'), or the exception the code trips over.
RECURSIVE find_form_row(_, _)
find_form_row(row, forms) ==
    LET rw == rewrite_fields(row)
        fields == rw.fields
        k == first_form(fields, forms)
        run1 == binary_run(fields, 2, 0)
        run0 == binary_run(fields, 1, 0)
        fail(exc) == [status |-> exc, form |-> "", row |-> fields]
    IN  IF rw.exc # "" THEN fail(rw.exc)
        ELSE IF k # 0 THEN [status |-> "found", form |-> forms[k].name, row |-> fields]
        ELSE IF run1.err THEN fail("TypeError")
        ELSE IF run1.start # 0 /\ run1.stop # 0 /\ run1.stop - run1.start > 1
        THEN find_form_row(collapse_fields(fields, run1.start, run1.stop), forms)
        ELSE IF run0.err THEN fail("TypeError")
        ELSE IF run0.start # 0 /\ run0.stop # 0 /\ run0.stop - run0.start > 1
        THEN find_form_row(collapse_fields(fields, run0.start, run0.stop), forms)
        ELSE fail("noform")

\* find_form(descr, forms) as scrape_instr_table calls it
find_form(fields, forms) ==
    find_form_row([i \in 1..Len(fields) |-> Plain(fields[i])], forms)

(***************************************************************************)
(* gen.py: export_instrs, the text of instr_table.py as the decoder        *)
(* imports it.                                                             *)
(***************************************************************************)
\* instr_name.replace('.', '_')
new_name(instr_name) ==
    CASE instr_name = "C.NOP"    -> "C_NOP"
      [] instr_name = "C.ADDI"   -> "C_ADDI"
      [] instr_name = "C.ADD"    -> "C_ADD"
      [] instr_name = "C.JR"     -> "C_JR"
      [] instr_name = "C.JALR"   -> "C_JALR"
      [] instr_name = "C.EBREAK" -> "C_EBREAK"
      [] instr_name = "C.FLW"    -> "C_FLW"
      [] instr_name = "C.LD"     -> "C_LD"
      [] instr_name = "C.MV"     -> "C_MV"
      [] OTHER -> instr_name

\* format_field_name (the back quote it writes for a prime is spelled ~ here)
format_field_name(field) ==
    LET v == field.value.s[1]
    IN  CASE v = "rs1$\\neq$0"    -> "rs1!=0"
          [] v = "rs2$\\neq$0"    -> "rs2!=0"
          [] v = "rd$\\neq$0"     -> "rd!=0"
          [] v = "rs1/rd$\\neq$0" -> "rs1/rd!=0"
          [] v = "\\rdprime"      -> "rd~"
          [] v = "\\rsoneprime"   -> "rs1~"
          [] v = "\\rstwoprime"   -> "rs2~"
          [] OTHER -> v

\* cat_parts_pat: the two groups (xlen, extension) of a category name RV<n><ext>
cat_xlen(cat) ==
    CASE cat \in {"RV32I", "RV32C"} -> 32
      [] cat \in {"RV64I", "RV64C"} -> 64
      [] cat \in {"RV128I", "RV128C"} -> 128
      [] OTHER -> 0
cat_ext(cat) ==
    CASE cat \in {"RV32I", "RV64I", "RV128I"} -> "I"
      [] cat \in {"RV32C", "RV64C", "RV128C"} -> "C"
      [] OTHER -> ""

RiscVInsCat(xlen, cat) == [xlen |-> xlen, cat |-> cat]
RiscVField(name, type, shift, mask, flags) ==
    [name |-> name, type |-> type, shift |-> shift, mask |-> mask, flags |-> flags]
RiscVIns(name, opcode, form, cat, mask, value, fields, flags) ==
    [name |-> name, opcode |-> opcode, form |-> form, cat |-> cat, mask |-> mask,
     value |-> value, fields |-> fields, flags |-> flags]

\* The (category, name) pairs of instrs in iteration order
RECURSIVE cat_pairs(_, _)
cat_pairs(cat, ops) ==
    IF Len(ops) = 0 THEN << >>
    ELSE << <<cat, Head(ops).name>> >> \o cat_pairs(cat, Tail(ops))

RECURSIVE instr_pairs(_)
instr_pairs(instrs) ==
    IF Len(instrs) = 0 THEN << >>
    ELSE cat_pairs(Head(instrs).cat, Head(instrs).ops) \o instr_pairs(Tail(instrs))

\* riscv_name_lookup: new_name -> [instr_name, [cat, ...]], in insertion order
RECURSIVE name_lookup(_, _)
name_lookup(pairs, lookup) ==
    IF Len(pairs) = 0 THEN lookup
    ELSE LET cat  == Head(pairs)[1]
             nn   == new_name(Head(pairs)[2])
             seen == \E i \in 1..Len(lookup) : lookup[i].new_name = nn
             next == IF seen
                     THEN [i \in 1..Len(lookup) |->
                             IF lookup[i].new_name = nn
                             THEN [lookup[i] EXCEPT !.cats = Append(@, cat)]
                             ELSE lookup[i]]
                     ELSE Append(lookup, [new_name |-> nn, old_name |-> Head(pairs)[2],
                                          cats |-> <<cat>>])
         IN  name_lookup(Tail(pairs), next)

riscv_name_lookup(instrs) == name_lookup(instr_pairs(instrs), << >>)

\* instrs[cat][name]
GetOp(instrs, cat, name) ==
    LET ops == CatOps(instrs, cat)
    IN  ops[CHOOSE i \in 1..Len(ops) : ops[i].name = name]

OperandTypes == {"IMM", "RM", "C_REG", "REG"}

\* operand_list: the operand fields of an Op, in reverse of the encoding order
RECURSIVE operand_list(_)
operand_list(fields) ==
    IF Len(fields) = 0 THEN << >>
    ELSE LET op == fields[Len(fields)]
             rest == operand_list(SubSeq(fields, 1, Len(fields) - 1))
         IN  IF op.type \in OperandTypes
             THEN << RiscVField(format_field_name(op), op.type, op.shift, op.mask, 0) >>
                  \o rest
             ELSE rest

\* "(%s)" % operand_str: a tuple of RiscVField, unless there is exactly one
\* operand: "(RiscVField(...))" is that RiscVField itself, not a tuple of it.
operand_str(operands) == [tuple |-> Len(operands) # 1, items |-> operands]

\* One line of the instructions tuple written to instr_table.py
export_line(instrs, entry) ==
    LET instr == GetOp(instrs, entry.cats[1], entry.old_name)
        cat_list == [i \in 1..Len(entry.cats) |->
                       RiscVInsCat(cat_xlen(entry.cats[i]), cat_ext(entry.cats[i]))]
    IN  RiscVIns(entry.old_name, entry.new_name, instr.form, cat_list, instr.mask,
                 instr.value, operand_str(operand_list(instr.fields)), instr.flags)

\* export_instrs: ok is FALSE when a category name fails "assert match";
\* instructions are the lines written before that
export_instrs(instrs) ==
    LET lookup == riscv_name_lookup(instrs)
        bad == {i \in 1..Len(lookup) : \E j \in 1..Len(lookup[i].cats) :
                                           cat_xlen(lookup[i].cats[j]) = 0}
        written == IF bad = {} THEN Len(lookup)
                   ELSE (CHOOSE i \in bad : \A k \in bad : i <= k) - 1
    IN  [ok |-> bad = {},
         instructions |-> [i \in 1..written |-> export_line(instrs, lookup[i])]]

(***************************************************************************)
(* disasm.py: RiscVDisasm.                                                 *)
(***************************************************************************)
\* envi.ENDIAN_LSB and envi.ENDIAN_MSB, the indices into ('<I', '>I')
ENDIAN_LSB == 0
ENDIAN_MSB == 1

\* setEndian: self.fmt, keyed by the width class (TRUE is 32 bit)
setEndian(endian) ==
    [size \in BOOLEAN |->
        IF size THEN (IF endian = ENDIAN_LSB THEN "<I" ELSE ">I")
        ELSE (IF endian = ENDIAN_LSB THEN "<H" ELSE ">H")]

\* struct.calcsize(fmt)
fmt_size(fmt) == IF fmt \in {"<I", ">I"} THEN 4 ELSE 2

\* The integer a run of bytes spells, least or most significant byte first
from_bytes_le(b) ==
    UNION {{8 * (i - 1) + k : k \in IntBits(b[i])} : i \in 1..Len(b)}

from_bytes_be(b) ==
    UNION {{8 * (Len(b) - i) + k : k \in IntBits(b[i])} : i \in 1..Len(b)}

\* struct.unpack_from(fmt, bytez, offset): ok is FALSE for struct.error
unpack_from(fmt, bytez, offset) ==
    LET n == fmt_size(fmt)
        b == SubSeq(bytez, offset + 1, offset + n)
    IN  IF offset + n > Len(bytez) THEN [ok |-> FALSE, ival |-> {}]
        ELSE [ok |-> TRUE,
              ival |-> IF fmt \in {"<I", "<H"} THEN from_bytes_le(b)
                       ELSE from_bytes_be(b)]

\* instr_size = entry.cat[0].cat != RISCV_CAT.C
instr_size(entry) == entry.cat[1].cat # "C"

\* The xlen of an entry's categories left unread: any category will do
has_xlen_any(entry, xlen) == \E i \in 1..Len(entry.cat) : entry.cat[i].xlen > 0

\* any(cat.xlen == xlen for cat in entry.cat)
has_xlen(entry, xlen) == \E i \in 1..Len(entry.cat) : entry.cat[i].xlen = xlen

\* The "assert False" of setCategories: a second entry of the decoder's xlen
\* arrives with the width class, mask and value of an earlier one.
value_collision(instructions, xlen) ==
    \E i, j \in 1..Len(instructions) :
        /\ i < j
        /\ has_xlen(instructions[i], xlen) /\ has_xlen(instructions[j], xlen)
        /\ instr_size(instructions[i]) = instr_size(instructions[j])
        /\ instructions[i].mask = instructions[j].mask
        /\ instructions[i].value = instructions[j].value

\* The keys of temp_instrs[instr_size]: a mask gets its (possibly empty)
\* dict from every entry of the width class, whatever its xlen.
temp_masks(instructions, size) ==
    {instructions[i].mask : i \in {k \in 1..Len(instructions) :
                                       instr_size(instructions[k]) = size}}

\* temp_instrs[instr_size][mask]: the entries of the decoder's xlen
temp_bucket(instructions, xlen, size, mask) ==
    {instructions[i] : i \in {k \in 1..Len(instructions) :
                                 /\ instr_size(instructions[k]) = size
                                 /\ instructions[k].mask = mask
                                 /\ has_xlen(instructions[k], xlen)}}

\* The order of the masks alone, the bit count left out of the sort key
mask_less(m1, m2) == IntLess(m1, m2)

\* sorted(masks_with_bit_count): ascending by (count_bits(mask), mask)
bit_count_less(m1, m2) ==
    \/ count_bits(m1) < count_bits(m2)
    \/ count_bits(m1) = count_bits(m2) /\ IntLess(m1, m2)

RECURSIVE sorted(_)
sorted(masks) ==
    IF masks = {} THEN << >>
    ELSE LET least == CHOOSE m \in masks :
                         \A o \in masks \ {m} : bit_count_less(m, o)
         IN  << least >> \o sorted(masks \ {least})

RECURSIVE reversed(_)
reversed(seq) ==
    IF Len(seq) = 0 THEN << >> ELSE Append(reversed(Tail(seq)), Head(seq))

\* The order of the masks when the reversal is left out
sorted_masks_ascending(masks) == sorted(masks)

\* sorted_masks = [mask for _, mask in reversed(sorted(masks_with_bit_count))]
sorted_masks(masks) == reversed(sorted(masks))

\* self.instrs[instr_size]: the masks in the order disasm tries them, each
\* with its dict of entries
size_table(instructions, xlen, size) ==
    LET order == sorted_masks(temp_masks(instructions, size))
    IN  [i \in 1..Len(order) |->
            [mask |-> order[i],
             entries |-> temp_bucket(instructions, xlen, size, order[i])]]

\* setCategories with the assert left out: entries of one mask and value
\* both go into the table
setCategories_unchecked(instructions, psize) ==
    [ok |-> TRUE,
     instrs |-> [size \in BOOLEAN |-> size_table(instructions, psize * 8, size)]]

\* setCategories: ok is FALSE when the assert fails
setCategories(instructions, psize) ==
    IF value_collision(instructions, psize * 8)
    THEN [ok |-> FALSE, instrs |-> [size \in BOOLEAN |-> << >>]]
    ELSE [ok |-> TRUE,
          instrs |-> [size \in BOOLEAN |-> size_table(instructions, psize * 8, size)]]

\* An entry that stands for Python's None
NoneIns == RiscVIns("None", "None", "None", << >>, {}, {}, operand_str(<< >>), {})

\* self.instrs[opcode_size][mask].get(masked_value)
bucket_get(entries, masked_value) ==
    IF \E e \in entries : e.value = masked_value
    THEN CHOOSE e \in entries : e.value = masked_value
    ELSE NoneIns

\* The for loop of disasm over the masks, from position i: the first entry
\* found, NoneIns when the loop runs out (the else branch raises)
RECURSIVE lookup_from(_, _, _)
lookup_from(table, ival, i) ==
    IF i > Len(table) THEN NoneIns
    ELSE LET found == bucket_get(table[i].entries, BitAnd(ival, table[i].mask))
         IN  IF found # NoneIns THEN found ELSE lookup_from(table, ival, i + 1)

lookup(table, ival) == lookup_from(table, ival, 1)

(***************************************************************************)
(* operands.py and the tail of disasm: the operands and the record.        *)
(***************************************************************************)
\* Python values of different types held in the same attribute
PyInt(n)    == [t |-> "int",   n |-> n, items |-> << >>, flags |-> {}, s |-> ""]
PyTuple(x)  == [t |-> "tuple", n |-> 0, items |-> x,     flags |-> {}, s |-> ""]
PyFlags(f)  == [t |-> "int",   n |-> 0, items |-> << >>, flags |-> f,  s |-> ""]
PyStr(s)    == [t |-> "str",   n |-> 0, items |-> << >>, flags |-> {}, s |-> s]
PyNone      == [t |-> "None",  n |-> 0, items |-> << >>, flags |-> {}, s |-> ""]

\* The attributes of the RiscVField namedtuple instr_table.py declares
RiscVFieldAttrs == {"name", "type", "shift", "mask", "flags"}

\* The parameters __init__ of each class of OPERCLASSES takes after self;
\* RiscVRMOper (and the CSR and memory operands) are defined nowhere.
oper_params(type) ==
    CASE type = "REG"   -> {"reg", "va", "oflags"}
      [] type = "C_REG" -> {"c_reg", "va", "oflags"}
      [] type = "IMM"   -> {"val", "va"}
      [] OTHER -> {}

\* OPERCLASSES[f.type](ival=ival, args=f.args, va=va, oflags=f.flags) for one
\* element f of found.fields. An element of a lone RiscVField (no tuple) is
\* its name, a str without .type; RiscVField has no attribute args; no
\* operand class takes ival or args.
make_oper(is_field, f, ival, va) ==
    IF ~is_field \/ "args" \notin RiscVFieldAttrs
    THEN [ok |-> FALSE, exc |-> "AttributeError", oper |-> PyNone]
    ELSE IF ~({"ival", "args", "va", "oflags"} \subseteq oper_params(f.type))
    THEN [ok |-> FALSE, exc |-> "TypeError", oper |-> PyNone]
    ELSE [ok |-> TRUE, exc |-> "", oper |-> PyStr(f.type)]

\* opers = tuple(... for f in found.fields): the first element that raises
\* ends the call
make_opers(fields, ival, va) ==
    IF Len(fields.items) = 0 THEN [ok |-> TRUE, exc |-> "", opers |-> << >>]
    ELSE LET made == [i \in 1..Len(fields.items) |->
                         make_oper(fields.tuple, fields.items[i], ival, va)]
         IN  IF \A i \in 1..Len(made) : made[i].ok
             THEN [ok |-> TRUE, exc |-> "",
                   opers |-> [i \in 1..Len(made) |-> made[i].oper]]
             ELSE [ok |-> FALSE,
                   exc |-> made[CHOOSE i \in 1..Len(made) :
                                   ~made[i].ok /\ \A j \in 1..(i - 1) : made[j].ok].exc,
                   opers |-> << >>]

\* RiscVOpcode.__init__(self, va, opcode, mnem, prefixes, size, opers, iflags=0)
RiscVOpcode(va, opcode, mnem, prefixes, size, opers, iflags) ==
    [opcode |-> opcode, mnem |-> mnem, prefixes |-> prefixes, size |-> size,
     opers |-> opers, repr |-> PyNone, iflags |-> iflags, va |-> va]

\* return RiscVOpcode(va, found.opcode, found.name, opcode_bytes, opers,
\*                    found.flags): six positional arguments, iflags defaulted
disasm_record(va, opcode, mnem, opcode_bytes, opers, flags) ==
    RiscVOpcode(va, opcode, mnem, opcode_bytes, opers, flags, PyFlags({}))

NoneOpcode ==
    RiscVOpcode(PyNone, PyNone, PyNone, PyNone, PyNone, PyNone, PyNone)

(***************************************************************************)
(* __init__.py: RiscvModule.                                               *)
(***************************************************************************)
\* archGetNopInstr: the bytes 00 00 00 13
archGetNopInstr == <<0, 0, 0, 19>>

(***************************************************************************)
(* The manual's tables: the rows the scraper can be given.                 *)
(***************************************************************************)
\* The column header of the 32-bit tables (the start bit of each column) and
\* rvc_columns, the fixed 16 one-bit columns of the compressed table.
Columns32 == <<31, 26, 24, 19, 14, 11, 6>>
rvc_columns == [i \in 1..16 |-> 16 - i]

Nm(s) == <<s>>
Zeros(n) == Repeat("0", n)

\* What _pat finds in a table, one row per match: the header of the bit
\* columns (fieldbits), a category header (catname), or an instruction or
\* Form row (instrmatch, notesmatch). A category header is its first word
\* split on '/', each part a run of symbols, and its {Z...} extension; a
\* note is the categories of its first word (when it starts with RV) and
\* the text after them.
Row(id, name, cells, notes) ==
    [id |-> id, kind |-> "instr", name |-> name, cells |-> cells, notes |-> notes,
     columns |-> << >>, ext |-> ""]
FormRow(id, name, cells) ==
    [id |-> id, kind |-> "form", name |-> name, cells |-> cells, notes |-> << >>,
     columns |-> << >>, ext |-> ""]
FieldBits(id, columns) ==
    [id |-> id, kind |-> "fieldbits", name |-> "", cells |-> << >>, notes |-> << >>,
     columns |-> columns, ext |-> ""]
CatHeader(id, parts, ext) ==
    [id |-> id, kind |-> "cat", name |-> "", cells |-> parts, notes |-> << >>,
     columns |-> << >>, ext |-> ext]
CatNote(parts, extra) == [cats |-> parts, text |-> extra]

Op7(bits) == <<1, bits>>

\* The Form rows of the 32-bit tables
R_TYPE ==
    FormRow("R_TYPE", "R_TYPE",
            << <<2, Nm("funct7")>>, <<1, Nm("rs2")>>, <<1, Nm("rs1")>>,
               <<1, Nm("funct3")>>, <<1, Nm("rd")>>, <<1, Nm("opcode")>> >>)
I_TYPE ==
    FormRow("I_TYPE", "I_TYPE",
            << <<3, Nm("imm[11:0]")>>, <<1, Nm("rs1")>>, <<1, Nm("funct3")>>,
               <<1, Nm("rd")>>, <<1, Nm("opcode")>> >>)
J_TYPE ==
    FormRow("J_TYPE", "J_TYPE",
            << <<5, Nm("imm[20|10:1|11|19:12]")>>, <<1, Nm("rd")>>,
               <<1, Nm("opcode")>> >>)

\* instr-table.tex (unprivileged). The Form U_TYPE and the row LUI are
\* typeset over six of the seven columns of the header.
UnprivRows ==
    << FieldBits("bits", Columns32), R_TYPE, I_TYPE, J_TYPE,
       FormRow("LUI", "U_TYPE",
               << <<4, Nm("imm[11:0]")>>, <<1, Nm("rd")>>, <<1, Nm("opcode")>> >>),
       FormRow("V_TYPE", "V_TYPE",
               << <<3, Nm("imm[11:0]")>>, <<1, Nm("rs1")>>, <<1, Nm("funct3")>>,
                  <<1, Nm("vm")>>, <<1, Nm("opcode")>> >>),
       Row("NOCAT", "LUI0",
           << <<3, Nm("imm[11:0]")>>, <<1, Nm("rs1")>>, <<1, <<"0","0","0">> >>,
              <<1, Nm("rd")>>, Op7(<<"0","1","1","0","1","1","1">>) >>, << >>),
       CatHeader("RV32I", << <<"RV", "32", "I">> >>, ""),
       Row("ADDI", "ADDI",
           << <<3, Nm("imm[11:0]")>>, <<1, Nm("rs1")>>, <<1, <<"0","0","0">> >>,
              <<1, Nm("rd")>>, Op7(<<"0","0","1","0","0","1","1">>) >>, << >>),
       Row("JAL", "JAL",
           << <<5, Nm("imm[20|10:1|11|19:12]")>>, <<1, Nm("rd")>>,
              Op7(<<"1","1","0","1","1","1","1">>) >>, << >>),
       Row("JALR", "JALR",
           << <<3, Nm("imm[11:0]")>>, <<1, Nm("rs1")>>, <<1, <<"0","0","0">> >>,
              <<1, Nm("rd")>>, Op7(<<"1","1","0","0","1","1","1">>) >>, << >>),
       Row("LUI", "LUI",
           << <<4, Nm("imm[11:0]")>>, <<1, Nm("rd")>>,
              Op7(<<"0","1","1","0","1","1","1">>) >>, << >>),
       Row("ECALL", "ECALL",
           << <<3, Zeros(12)>>, <<1, Zeros(5)>>, <<1, Zeros(3)>>, <<1, Zeros(5)>>,
              Op7(<<"1","1","1","0","0","1","1">>) >>, << >>),
       Row("FENCE", "FENCE",
           << <<1, Nm("fm")>>, <<1, Nm("pred")>>, <<1, Nm("succ")>>, <<1, Nm("rs1")>>,
              <<1, <<"0","0","0">> >>, <<1, Nm("rd")>>,
              Op7(<<"0","0","0","1","1","1","1">>) >>, << >>),
       Row("FENCE.X", "FENCE.X",
           << <<2, Nm("fm")>>, <<1, Nm("pred")>>, <<1, Nm("succ")>>, <<1, Nm("rs1")>>,
              <<1, <<"0","0","0">> >>, <<1, Nm("rd")>>,
              Op7(<<"0","0","0","1","1","1","1">>) >>, << >>),
       Row("BADROW", "BADROW",
           << <<3, Nm("imm[11:0]")>>, <<1, Nm("rs1")>>, <<1, Nm("rs2")>>,
              <<1, Nm("rd")>>, Op7(<<"0","0","1","0","0","1","1">>) >>, << >>),
       Row("FADD.S", "FADD.S",
           << <<2, Zeros(7)>>, <<1, Nm("rs2")>>, <<1, Nm("rs1")>>, <<1, Nm("rm")>>,
              <<1, Nm("rd")>>, Op7(<<"1","0","1","0","0","1","1">>) >>, << >>),
       CatHeader("ADDIW", << <<"RV", "64", "I">> >>, ""),
       Row("ADDIW", "ADDIW",
           << <<3, Nm("imm[11:0]")>>, <<1, Nm("rs1")>>, <<1, <<"0","0","0">> >>,
              <<1, Nm("rd")>>, Op7(<<"0","0","1","1","0","1","1">>) >>, << >>) >>

\* priv-instr-table.tex (default category RV32I). SFENCE.VMA comes annotated
\* RV128 under a header of RV64I.
PrivRows ==
    << FieldBits("bits", Columns32), R_TYPE, I_TYPE,
       CatHeader("HWMO", << <<"RV", "WMO">> >>, ""),
       Row("MRET", "MRET",
           << <<2, <<"0","0","1","1","0","0","0">> >>, <<1, <<"0","0","0","1","0">> >>,
              <<1, Zeros(5)>>, <<1, Zeros(3)>>, <<1, Zeros(5)>>,
              Op7(<<"1","1","1","0","0","1","1">>) >>, << >>),
       Row("P.ECALL", "ECALL",
           << <<3, Zeros(11) \o <<"1">> >>, <<1, Zeros(5)>>, <<1, Zeros(3)>>,
              <<1, Zeros(5)>>, Op7(<<"1","1","1","0","0","1","1">>) >>, << >>),
       CatHeader("SFENCE", << <<"RV", "64", "I">> >>, ""),
       Row("SFENCE", "SFENCE.VMA",
           << <<2, <<"0","0","0","1","0","0","1">> >>, <<1, Nm("rs2")>>, <<1, Nm("rs1")>>,
              <<1, Zeros(3)>>, <<1, Zeros(5)>>, Op7(<<"1","1","1","0","0","1","1">>) >>,
           << CatNote(<< <<"RV", "128">> >>, "") >>) >>

\* c.tex: the Forms of the compressed instructions, in the order given
RvcFormRows ==
    << FormRow("CR", "CR",
               << <<4, Nm("funct4")>>, <<5, Nm("rd/rs1")>>, <<5, Nm("rs2")>>,
                  <<2, Nm("op")>> >>),
       FormRow("CI", "CI",
               << <<3, Nm("funct3")>>, <<1, Nm("imm")>>, <<5, Nm("rd/rs1")>>,
                  <<5, Nm("imm")>>, <<2, Nm("op")>> >>),
       FormRow("CL", "CL",
               << <<3, Nm("funct3")>>, <<3, Nm("imm")>>, <<3, Nm("\\rsoneprime")>>,
                  <<2, Nm("imm")>>, <<3, Nm("\\rdprime")>>, <<2, Nm("op")>> >>),
       FormRow("CS", "CS",
               << <<3, Nm("funct3")>>, <<3, Nm("imm")>>, <<3, Nm("\\rsoneprime")>>,
                  <<2, Nm("imm")>>, <<3, Nm("\\rstwoprime")>>, <<2, Nm("op")>> >>) >>

\* rvc-instr-table.tex (default category RV32C). C.NOP and C.JR spell a zero
\* field as the manual typesets it, with the one digit 0; C.JALR and
\* C.EBREAK spell every bit. C.LD comes annotated RV64 or, as row C.LD32,
\* RV32/64, or twice, annotated RV64 and, with other cells, RV32. C.MV comes with its funct4 typeset as three cells, and with its
\* op typeset as two cells of one bit; C.LW has a constant
\* in its first immediate and its second immediate as two cells of one bit.
\* The two HINT rows are C.SLLI64 with cells that a Form takes and with cells
\* that no Form takes.
RvcRows ==
    << FieldBits("bits", rvc_columns),
       Row("C.NOP", "C.NOP",
           << <<3, <<"0","0","0">> >>, <<1, Nm("nzimm[5]")>>, <<5, <<"0">> >>,
              <<5, Nm("nzimm[4:0]")>>, <<2, <<"0","1">> >> >>, << >>),
       Row("C.ADDI", "C.ADDI",
           << <<3, <<"0","0","0">> >>, <<1, Nm("nzimm[5]")>>,
              <<5, Nm("rs1/rd$\\neq$0")>>, <<5, Nm("nzimm[4:0]")>>,
              <<2, <<"0","1">> >> >>, << >>),
       Row("C.ADD", "C.ADD",
           << <<3, <<"1","0","0">> >>, <<1, <<"1">> >>, <<5, Nm("rs1/rd$\\neq$0")>>,
              <<5, Nm("rs2$\\neq$0")>>, <<2, <<"1","0">> >> >>, << >>),
       Row("C.JALR", "C.JALR",
           << <<3, <<"1","0","0">> >>, <<1, <<"1">> >>, <<5, Nm("rs1$\\neq$0")>>,
              <<5, Zeros(5)>>, <<2, <<"1","0">> >> >>, << >>),
       Row("C.EBREAK", "C.EBREAK",
           << <<3, <<"1","0","0">> >>, <<1, <<"1">> >>, <<5, Zeros(5)>>,
              <<5, Zeros(5)>>, <<2, <<"1","0">> >> >>, << >>),
       Row("C.JR", "C.JR",
           << <<3, <<"1","0","0">> >>, <<1, <<"0">> >>, <<5, Nm("rs1$\\neq$0")>>,
              <<5, <<"0">> >>, <<2, <<"1","0">> >> >>, << >>),
       Row("C.FLW", "C.FLW",
           << <<3, <<"0","1","1">> >>, <<3, Nm("uimm[5:3]")>>, <<3, Nm("\\rsoneprime")>>,
              <<2, Nm("uimm[2|6]")>>, <<3, Nm("\\rdprime")>>, <<2, <<"0","0">> >> >>,
           << CatNote(<< <<"RV", "32">> >>, "") >>),
       Row("C.LD", "C.LD",
           << <<3, <<"0","1","1">> >>, <<3, Nm("uimm[5:3]")>>, <<3, Nm("\\rsoneprime")>>,
              <<2, Nm("uimm[7:6]")>>, <<3, Nm("\\rdprime")>>, <<2, <<"0","0">> >> >>,
           << CatNote(<< <<"RV", "64">> >>, "") >>),
       Row("C.LD32", "C.LD",
           << <<3, <<"0","1","1">> >>, <<3, Nm("uimm[5:3]")>>, <<3, Nm("\\rsoneprime")>>,
              <<2, Nm("uimm[7:6]")>>, <<3, Nm("\\rdprime")>>, <<2, <<"0","0">> >> >>,
           << CatNote(<< <<"RV", "32">>, <<"64">> >>, "") >>),
       Row("C.LD2", "C.LD",
           << <<3, <<"0","1","1">> >>, <<3, Nm("uimm[5:3]")>>, <<3, Nm("\\rsoneprime")>>,
              <<2, Nm("uimm[7:6]")>>, <<3, Nm("\\rdprime")>>, <<2, <<"0","0">> >> >>,
           << CatNote(<< <<"RV", "64">> >>, "") >>),
       Row("C.LD2", "C.LD",
           << <<3, <<"1","1","1">> >>, <<3, Nm("uimm[5:3]")>>, <<3, Nm("\\rsoneprime")>>,
              <<2, Nm("uimm[2|6]")>>, <<3, Nm("\\rdprime")>>, <<2, <<"0","0">> >> >>,
           << CatNote(<< <<"RV", "32">> >>, "") >>),
       Row("C.SPLIT", "C.MV",
           << <<2, <<"1","0">> >>, <<1, <<"0">> >>, <<1, <<"0">> >>,
              <<5, Nm("rd$\\neq$0")>>, <<5, Nm("rs2$\\neq$0")>>,
              <<2, <<"1","0">> >> >>, << >>),
       Row("C.TRAIL", "C.MV",
           << <<4, <<"1","0","0","0">> >>, <<5, Nm("rd$\\neq$0")>>,
              <<5, Nm("rs2$\\neq$0")>>, <<1, <<"1">> >>, <<1, <<"0">> >> >>, << >>),
       Row("C.LATER", "C.LW",
           << <<3, <<"0","1","0">> >>, <<3, <<"0","0","0">> >>, <<3, Nm("\\rsoneprime")>>,
              <<1, <<"0">> >>, <<1, <<"1">> >>, <<3, Nm("\\rdprime")>>,
              <<2, <<"0","0">> >> >>, << >>),
       Row("C.HINT", "C.SLLI64",
           << <<3, <<"0","0","0">> >>, <<1, <<"0">> >>, <<5, Nm("rs1/rd$\\neq$0")>>,
              <<5, <<"0">> >>, <<2, <<"1","0">> >> >>,
           << CatNote(<< <<"RV", "128">> >>, ""),
              CatNote(<< <<"RV", "32">>, <<"64">> >>, "HINT") >>),
       Row("C.HINT.X", "C.SLLI64",
           << <<3, <<"0","0","0">> >>, <<1, <<"0">> >>, <<4, Nm("rs1/rd$\\neq$0")>>,
              <<6, <<"0">> >>, <<2, <<"1","0">> >> >>,
           << CatNote(<< <<"RV", "128">> >>, ""),
              CatNote(<< <<"RV", "32">>, <<"64">> >>, "HINT") >>) >>

\* The rows a manual may or may not hold; the others are in every text. The
\* first are taken in every combination, the rest one at a time.
OptionalRows == {"ADDIW", "C.JR", "C.FLW", "C.LD", "C.LD32"}
VariantRows ==
    {"V_TYPE", "LUI", "NOCAT", "SFENCE", "FENCE", "FENCE.X", "BADROW", "FADD.S", "HWMO", "P.ECALL",
     "C.LD2", "C.SPLIT", "C.TRAIL", "C.LATER", "C.HINT", "C.HINT.X"}

Present(rows, opt) ==
    SelectSeq(rows, LAMBDA r : r.id \notin (OptionalRows \cup VariantRows) \/ r.id \in opt)

Text(opt) ==
    [unpriv |-> Present(UnprivRows, opt), priv |-> Present(PrivRows, opt),
     rvcforms |-> RvcFormRows, rvc |-> Present(RvcRows, opt)]

Texts ==
    {Text(opt) : opt \in SUBSET OptionalRows} \cup {Text({v}) : v \in VariantRows}

(***************************************************************************)
(* gen.py: scrape_instr_table and scrape_rvc_forms, one row at a time.     *)
(***************************************************************************)
\* The str a run of symbols spells
RECURSIVE Join(_)
Join(symbols) == IF Len(symbols) = 0 THEN "" ELSE Head(symbols) \o Join(Tail(symbols))

\* The default_cat scrape_instrs passes for each table (<< >> for None)
default_cat(table) ==
    CASE table = "priv" -> <<"RV", "32", "I">>
      [] table = "rvc"  -> <<"RV", "32", "C">>
      [] OTHER -> << >>

\* One catpart of a note made a category: 'RV' put in front when missing,
\* the last character of default_cat put behind when there is a default
cat_of_part(part, default) ==
    (IF part[1] = "RV" THEN "" ELSE "RV") \o Join(part)
        \o (IF default # << >> THEN default[Len(default)] ELSE "")

\* The categories the notes of a row name, in order
RECURSIVE note_cats(_, _)
note_cats(notes, default) ==
    IF Len(notes) = 0 THEN << >>
    ELSE [i \in 1..Len(Head(notes).cats) |-> cat_of_part(Head(notes).cats[i], default)]
         \o note_cats(Tail(notes), default)

\* notes: what is left of the annotation once the categories are taken out
RECURSIVE note_texts(_)
note_texts(notes) ==
    IF Len(notes) = 0 THEN << >>
    ELSE (IF Head(notes).text # "" THEN << Head(notes).text >> ELSE << >>)
         \o note_texts(Tail(notes))

\* cats_from_str(catname)
cats_from_str(parts, ext) ==
    IF Len(parts) = 0 \/ parts[1][1] # "RV" THEN << >>
    ELSE [i \in 1..Len(parts) |->
             (IF parts[i][1] = "RV" THEN "" ELSE "RV") \o Join(parts[i]) \o ext]

\* row_cat_list with the default category preferred to the section's
row_cat_list_default_first(notes, cur_cats, default) ==
    IF note_cats(notes, default) # << >> THEN note_cats(notes, default)
    ELSE IF default # << >> THEN << Join(default) >>
    ELSE IF cur_cats # << >> THEN cur_cats
    ELSE << >>

\* row_cat_list with the section's categories, or the default one, added to
\* the categories the notes name
row_cat_list_with_section(notes, cur_cats, default) ==
    note_cats(notes, default)
        \o (IF cur_cats # << >> THEN cur_cats
            ELSE IF default # << >> THEN << Join(default) >>
            ELSE << >>)

\* cat_list of an instruction row: the categories of its notes, else
\* cur_cats, else the default category, else nothing
row_cat_list(notes, cur_cats, default) ==
    IF note_cats(notes, default) # << >> THEN note_cats(notes, default)
    ELSE IF cur_cats # << >> THEN cur_cats
    ELSE IF default # << >> THEN << Join(default) >>
    ELSE << >>

\* Form(name, fields) and forms[form_name] = Form(form_name, fields)
Form(name, fields) == [name |-> name, fields |-> fields]
put_form(forms, form) ==
    IF \E i \in 1..Len(forms) : forms[i].name = form.name
    THEN [i \in 1..Len(forms) |-> IF forms[i].name = form.name THEN form ELSE forms[i]]
    ELSE Append(forms, form)

\* scrape_rvc_forms: exc is set when a Form's bits do not add up to 16 or a
\* token has no type
RECURSIVE scrape_rvc_forms(_, _)
scrape_rvc_forms(rows, forms) ==
    IF Len(rows) = 0 THEN [exc |-> "", forms |-> forms]
    ELSE LET info == get_field_info(Head(rows).cells, rvc_columns)
         IN  IF sum_sizes(Head(rows).cells) # 16
             THEN [exc |-> "Exception: missing bits", forms |-> forms]
             ELSE IF ~info.ok
             THEN [exc |-> "Exception: Unknown field type", forms |-> forms]
             ELSE scrape_rvc_forms(Tail(rows),
                                   put_form(forms, Form(Head(rows).name, info.fields)))

\* instructions[cat] = {} for every category of a header; ok is FALSE when
\* "assert cat not in instructions" fails
RECURSIVE open_cats(_, _)
open_cats(instrs, cats) ==
    IF Len(cats) = 0 THEN [ok |-> TRUE, instrs |-> instrs]
    ELSE IF CatIndex(instrs, Head(cats)) # 0 THEN [ok |-> FALSE, instrs |-> instrs]
    ELSE open_cats(Append(instrs, [cat |-> Head(cats), ops |-> << >>]), Tail(cats))

\* The body of the loop of scrape_instr_table for one row, on the state
\* st = [columns, forms, cur_cats, cur]: the state after the row, exc set
\* to the exception when the row raises
scrape_row(row, st, table) ==
    LET raise(e) == [st EXCEPT !.exc = e]
    IN  CASE row.kind = "fieldbits" -> [st EXCEPT !.columns = row.columns]
          [] row.kind = "cat" ->
                LET cats == cats_from_str(row.cells, row.ext)
                    o == open_cats(st.cur, cats)
                IN  IF o.ok THEN [st EXCEPT !.cur_cats = cats, !.cur = o.instrs]
                    ELSE raise("AssertionError")
          [] row.kind = "form" ->
                LET info == get_field_info(row.cells, st.columns)
                IN  IF info.ok
                    THEN [st EXCEPT !.forms = put_form(@, Form(row.name, info.fields))]
                    ELSE raise("Exception: Unknown field type")
          [] OTHER ->
                LET cat_list == row_cat_list(row.notes, st.cur_cats, default_cat(table))
                    ff == find_form(row.cells, st.forms)
                    info == get_field_info(row.cells, st.columns)
                    r == add_instr(st.cur, row.name, cat_list, ff.form, info.fields,
                                   note_texts(row.notes), table = "priv")
                IN  IF ff.status = "noform" THEN raise("Exception: no form match found")
                    ELSE IF ff.status # "found" THEN raise(ff.status)
                    ELSE IF ~info.ok THEN raise("Exception: Unknown field type")
                    ELSE IF r.status = "assert" THEN raise("AssertionError")
                    ELSE IF r.status = "raise" THEN raise("Exception")
                    ELSE [st EXCEPT !.cur = r.instrs]

(***************************************************************************)
(* gen.py: scrape_instrs, the three tables merged into one.                *)
(***************************************************************************)
\* instrs[cat] = data, or instrs[cat].update(data), for one category
RECURSIVE update_ops(_, _, _)
update_ops(instrs, cat, ops) ==
    IF Len(ops) = 0 THEN instrs
    ELSE update_ops(PutOp(instrs, cat, Head(ops)), cat, Tail(ops))

\* for cat, data in table.items(): the merge of one scraped table into instrs
RECURSIVE merge_instrs(_, _)
merge_instrs(instrs, table) ==
    IF Len(table) = 0 THEN instrs
    ELSE LET cat == Head(table).cat
             with == IF CatIndex(instrs, cat) = 0
                     THEN Append(instrs, [cat |-> cat, ops |-> << >>])
                     ELSE instrs
         IN  merge_instrs(update_ops(with, cat, Head(table).ops), Tail(table))

\* new_fields with every field copied, rd too
jump_fields_keep_rd(fields) == fields

\* new_fields: the fields of JAL or JALR with rd made the constant 0
jump_fields(fields) ==
    [i \in 1..Len(fields) |->
        IF fields[i].value = StrVal(<<"rd">>)
        THEN Field(IntVal(0), "CONST", fields[i].columns, fields[i].bits,
                   fields[i].mask, fields[i].shift)
        ELSE fields[i]]

\* jmps and uncond_jmps, zipped
JumpPairs == << <<"JAL", "J">>, <<"JALR", "JR">> >>

\* The special case of scrape_instrs: for every category (from index c) and
\* both jumps (from index k), add J beside JAL and JR beside JALR.
RECURSIVE synth_jumps(_, _, _)
synth_jumps(unpriv_instrs, c, k) ==
    IF c > Len(unpriv_instrs) THEN [status |-> "added", instrs |-> unpriv_instrs]
    ELSE IF k > Len(JumpPairs) THEN synth_jumps(unpriv_instrs, c + 1, 1)
    ELSE LET cat == unpriv_instrs[c].cat
             old == JumpPairs[k][1]
             new == JumpPairs[k][2]
         IN  IF old \in OpNames(unpriv_instrs[c].ops)
             THEN LET old_instr == GetOp(unpriv_instrs, cat, old)
                      r == add_instr(unpriv_instrs, new, <<cat>>, old_instr.form,
                                     jump_fields(old_instr.fields), old_instr.notes,
                                     FALSE)
                  IN  IF r.status \in {"assert", "raise"} THEN r
                      ELSE synth_jumps(r.instrs, c, k + 1)
             ELSE synth_jumps(unpriv_instrs, c, k + 1)

(***************************************************************************)
(* The state.                                                              *)
(***************************************************************************)
VARIABLES
    text,          \* the manual's rows: [unpriv, priv, rvc]
    phase,         \* where the program is: the table being scraped, "jumps",
                   \* "export", "exported", "loaded", or an abort
    rowi,          \* the next row of the table being scraped
    columns,       \* scrape_instr_table: the live header of the bit columns
    forms,         \* scrape_instr_table: the Form catalog
    cur_cats,      \* scrape_instr_table: the categories of the last header
    cur,           \* the instructions dict of the table being scraped
    instrs,        \* scrape_instrs' merged table
    instructions,  \* the instructions tuple of the generated instr_table.py
    files,         \* const_gen.py and instr_table.py on disk: "old", "partial"
                   \* (opened for writing and left unfinished) or "full"
    exc,           \* the exception that ended main, "" while there is none
    dis,           \* the RiscVDisasm: psize, endian, fmt, instrs
    pc,            \* per caller: where its disasm call is
    bytez, offset, va,          \* per caller: the arguments of its call
    opcode_size, ival, found,   \* per caller: the locals of disasm
    ret            \* per caller: what the call returned or raised

decoder == <<dis>>
scraper == <<columns, forms, cur_cats, cur>>
compiler == <<text, phase, rowi, columns, forms, cur_cats, cur, instrs, instructions,
              files, exc>>
callers == <<pc, bytez, offset, va, opcode_size, ival, found, ret>>
vars == <<text, phase, rowi, columns, forms, cur_cats, cur, instrs, instructions,
          files, exc, dis, pc, bytez, offset, va, opcode_size, ival, found, ret>>

\* The inputs of disasm: the buffers (bytes as numbers), offsets and
\* addresses callers pass
MaxOffset == 1
Offsets == 0..MaxOffset
VAs == {4096, 4097}
Bufs ==
    { <<19, 0, 0, 0>>, <<0, 0, 0, 19>>, <<111, 0, 0, 0>>, <<239, 0, 0, 0>>,
      <<115, 0, 0, 0>>, <<115, 0, 32, 48>>, <<255, 255, 255, 255>>,
      <<155, 0, 0, 0>>, <<1, 0>>, <<133, 0>>, <<2, 144>>, <<144, 2>>,
      <<130, 144>>, <<138, 144>>, <<130, 128>>, <<2, 8>>, <<0, 96>>,
      <<1, 19, 0, 0, 0>>, <<19>>, << >> }
ConcBufs ==
    { <<19, 0, 0, 0>>, <<111, 0, 0, 0>>, <<115, 0, 0, 0>>, <<255, 255, 255, 255>>,
      <<2, 144>>, <<130, 144>> }

NoRet == [kind |-> "none", exc |-> "", op |-> NoneOpcode]
NoDis == [psize |-> 0, endian |-> ENDIAN_LSB, fmt |-> setEndian(ENDIAN_LSB),
          instrs |-> [size \in BOOLEAN |-> << >>]]

InitCallers(T) ==
    /\ pc = [t \in T |-> "idle"]
    /\ bytez = [t \in T |-> << >>]
    /\ offset = [t \in T |-> 0]
    /\ va = [t \in T |-> 0]
    /\ opcode_size = [t \in T |-> FALSE]
    /\ ival = [t \in T |-> {}]
    /\ found = [t \in T |-> NoneIns]
    /\ ret = [t \in T |-> NoRet]

InitProgram(texts, T) ==
    /\ text \in texts
    /\ phase = "unpriv"
    /\ rowi = 1
    /\ columns = << >>
    /\ forms = << >>
    /\ cur_cats = << >>
    /\ cur = << >>
    /\ instrs = << >>
    /\ instructions = << >>
    /\ files = [const_gen |-> "old", instr_table |-> "old"]
    /\ exc = ""
    /\ dis = NoDis
    /\ InitCallers(T)

Init == InitProgram(Texts, {1})

(***************************************************************************)
(* The compiler's steps (gen.py: main, scrape_instrs, scrape_instr_table). *)
(***************************************************************************)
TablePhases == {"unpriv", "priv", "rvc"}

\* One row of the table being scraped. An exception or a failed assert ends
\* the compile.
ScrapeRow ==
    /\ phase \in TablePhases
    /\ rowi <= Len(text[phase])
    /\ LET st == scrape_row(text[phase][rowi],
                            [columns |-> columns, forms |-> forms,
                             cur_cats |-> cur_cats, cur |-> cur, exc |-> ""],
                            phase)
       IN  IF st.exc # ""
           THEN /\ phase' = "abort"
                /\ exc' = st.exc
                /\ UNCHANGED <<rowi, scraper>>
           ELSE /\ columns' = st.columns
                /\ forms' = st.forms
                /\ cur_cats' = st.cur_cats
                /\ cur' = st.cur
                /\ rowi' = rowi + 1
                /\ UNCHANGED <<phase, exc>>
    /\ UNCHANGED <<text, instrs, instructions, files, decoder, callers>>

\* The unprivileged table is scraped: make J and JR, merge the table, and
\* start on the privileged table with a new catalog.
SynthJumps ==
    /\ phase = "unpriv"
    /\ rowi > Len(text.unpriv)
    /\ LET r == synth_jumps(cur, 1, 1)
       IN  IF r.status \in {"assert", "raise"}
           THEN /\ phase' = "abort"
                /\ exc' = IF r.status = "assert" THEN "AssertionError" ELSE "Exception"
                /\ UNCHANGED <<rowi, scraper, instrs>>
           ELSE /\ instrs' = merge_instrs(instrs, r.instrs)
                /\ cur' = << >>
                /\ columns' = << >>
                /\ forms' = << >>
                /\ cur_cats' = << >>
                /\ rowi' = 1
                /\ phase' = "priv"
                /\ UNCHANGED exc
    /\ UNCHANGED <<text, instructions, files, decoder, callers>>

\* The privileged or the compressed table is scraped: merge it. After the
\* privileged table come the Forms of c.tex, the catalog the compressed
\* table is scraped with.
MergeTable ==
    /\ phase \in {"priv", "rvc"}
    /\ rowi > Len(text[phase])
    /\ instrs' = merge_instrs(instrs, cur)
    /\ LET f == scrape_rvc_forms(text.rvcforms, << >>)
       IN  IF phase = "priv" /\ f.exc # ""
           THEN /\ phase' = "abort"
                /\ exc' = f.exc
                /\ UNCHANGED <<rowi, scraper>>
           ELSE /\ cur' = << >>
                /\ columns' = << >>
                /\ forms' = IF phase = "priv" THEN f.forms ELSE forms
                /\ cur_cats' = << >>
                /\ rowi' = 1
                /\ phase' = IF phase = "priv" THEN "rvc" ELSE "export"
                /\ UNCHANGED exc
    /\ UNCHANGED <<text, instructions, files, decoder, callers>>

\* export_instrs: const_gen.py is written, then instr_table.py line by line
\* until a category name fails "assert match"
Export ==
    /\ phase = "export"
    /\ LET e == export_instrs(instrs)
       IN  /\ instructions' = e.instructions
           /\ files' = [const_gen |-> "full",
                        instr_table |-> IF e.ok THEN "full" ELSE "partial"]
           /\ phase' = IF e.ok THEN "exported" ELSE "abort"
           /\ exc' = IF e.ok THEN "" ELSE "AssertionError"
    /\ UNCHANGED <<text, rowi, scraper, instrs, decoder, callers>>

(***************************************************************************)
(* The decoder's steps (disasm.py).                                        *)
(***************************************************************************)
\* RiscVDisasm(endian, psize): setEndian, then setCategories over the
\* imported table; a failed assert leaves no decoder.
Construct(endian, psize) ==
    /\ phase = "exported"
    /\ LET c == setCategories(instructions, psize)
       IN  IF c.ok
           THEN /\ dis' = [psize |-> psize, endian |-> endian,
                           fmt |-> setEndian(endian), instrs |-> c.instrs]
                /\ phase' = "loaded"
           ELSE /\ phase' = "load_abort"
                /\ UNCHANGED dis
    /\ UNCHANGED <<text, rowi, scraper, instrs, instructions, files, exc, callers>>

\* A caller enters disasm(bytez, offset, va)
Call(t, b, o, v) ==
    /\ phase = "loaded"
    /\ pc[t] = "idle"
    /\ bytez' = [bytez EXCEPT ![t] = b]
    /\ offset' = [offset EXCEPT ![t] = o]
    /\ va' = [va EXCEPT ![t] = v]
    /\ pc' = [pc EXCEPT ![t] = "read"]
    /\ UNCHANGED <<compiler, decoder, opcode_size, ival, found, ret>>

\* DisasmRead with the word kept on the decoder, one ival for every caller,
\* instead of in a local of the call
DisasmRead_shared_ival(t) ==
    /\ pc[t] = "read"
    /\ IF offset[t] >= Len(bytez[t])
       THEN /\ ret' = [ret EXCEPT ![t] = [kind |-> "raise", exc |-> "IndexError",
                                          op |-> NoneOpcode]]
            /\ pc' = [pc EXCEPT ![t] = "raised"]
            /\ UNCHANGED <<opcode_size, ival>>
       ELSE LET size == BitAnd(IntBits(bytez[t][offset[t] + 1]), IntBits(3)) = IntBits(3)
                u == unpack_from(dis.fmt[size], bytez[t], offset[t])
            IN  /\ opcode_size' = [opcode_size EXCEPT ![t] = size]
                /\ IF u.ok
                   THEN /\ ival' = [c \in DOMAIN ival |-> u.ival]
                        /\ pc' = [pc EXCEPT ![t] = "lookup"]
                        /\ UNCHANGED ret
                   ELSE /\ ret' = [ret EXCEPT ![t] =
                                      [kind |-> "raise", exc |-> "struct.error",
                                       op |-> NoneOpcode]]
                        /\ pc' = [pc EXCEPT ![t] = "raised"]
                        /\ UNCHANGED ival
    /\ UNCHANGED <<compiler, decoder, bytez, offset, va, found>>

\* opcode_size = bytez[offset] & 0x3 == 0x3, then struct.unpack_from
DisasmRead(t) ==
    /\ pc[t] = "read"
    /\ IF offset[t] >= Len(bytez[t])
       THEN /\ ret' = [ret EXCEPT ![t] = [kind |-> "raise", exc |-> "IndexError",
                                          op |-> NoneOpcode]]
            /\ pc' = [pc EXCEPT ![t] = "raised"]
            /\ UNCHANGED <<opcode_size, ival>>
       ELSE LET size == BitAnd(IntBits(bytez[t][offset[t] + 1]), IntBits(3)) = IntBits(3)
                u == unpack_from(dis.fmt[size], bytez[t], offset[t])
            IN  /\ opcode_size' = [opcode_size EXCEPT ![t] = size]
                /\ IF u.ok
                   THEN /\ ival' = [ival EXCEPT ![t] = u.ival]
                        /\ pc' = [pc EXCEPT ![t] = "lookup"]
                        /\ UNCHANGED ret
                   ELSE /\ ret' = [ret EXCEPT ![t] =
                                      [kind |-> "raise", exc |-> "struct.error",
                                       op |-> NoneOpcode]]
                        /\ pc' = [pc EXCEPT ![t] = "raised"]
                        /\ UNCHANGED ival
    /\ UNCHANGED <<compiler, decoder, bytez, offset, va, found>>

\* The loop over self.instrs[opcode_size]; its else branch raises
\* envi.InvalidInstruction
DisasmLookup(t) ==
    /\ pc[t] = "lookup"
    /\ LET f == lookup(dis.instrs[opcode_size[t]], ival[t])
       IN  IF f = NoneIns
           THEN /\ ret' = [ret EXCEPT ![t] =
                              [kind |-> "raise", exc |-> "InvalidInstruction",
                               op |-> NoneOpcode]]
                /\ pc' = [pc EXCEPT ![t] = "raised"]
                /\ UNCHANGED found
           ELSE /\ found' = [found EXCEPT ![t] = f]
                /\ pc' = [pc EXCEPT ![t] = "build"]
                /\ UNCHANGED ret
    /\ UNCHANGED <<compiler, decoder, bytez, offset, va, opcode_size, ival>>

\* The operands and the RiscVOpcode that is returned
DisasmBuild(t) ==
    /\ pc[t] = "build"
    /\ LET m == make_opers(found[t].fields, ival[t], va[t])
           opcode_bytes == IF opcode_size[t] THEN 4 ELSE 2
       IN  IF m.ok
           THEN /\ ret' = [ret EXCEPT ![t] =
                              [kind |-> "opcode", exc |-> "",
                               op |-> disasm_record(PyInt(va[t]), PyStr(found[t].opcode),
                                                    PyStr(found[t].name),
                                                    PyInt(opcode_bytes),
                                                    PyTuple(m.opers),
                                                    PyFlags(found[t].flags))]]
                /\ pc' = [pc EXCEPT ![t] = "done"]
           ELSE /\ ret' = [ret EXCEPT ![t] = [kind |-> "raise", exc |-> m.exc,
                                              op |-> NoneOpcode]]
                /\ pc' = [pc EXCEPT ![t] = "raised"]
    /\ UNCHANGED <<compiler, decoder, bytez, offset, va, opcode_size, ival, found>>

\* The call is over: the caller has its record or its exception
Return(t) ==
    /\ pc[t] \in {"done", "raised"}
    /\ pc' = [pc EXCEPT ![t] = "idle"]
    /\ bytez' = [bytez EXCEPT ![t] = << >>]
    /\ offset' = [offset EXCEPT ![t] = 0]
    /\ va' = [va EXCEPT ![t] = 0]
    /\ opcode_size' = [opcode_size EXCEPT ![t] = FALSE]
    /\ ival' = [ival EXCEPT ![t] = {}]
    /\ found' = [found EXCEPT ![t] = NoneIns]
    /\ ret' = [ret EXCEPT ![t] = NoRet]
    /\ UNCHANGED <<compiler, decoder>>

Compile == ScrapeRow \/ SynthJumps \/ MergeTable \/ Export

Load == \E endian \in {ENDIAN_LSB, ENDIAN_MSB}, psize \in {4, 8} : Construct(endian, psize)

Disasm(t) == DisasmRead(t) \/ DisasmLookup(t) \/ DisasmBuild(t) \/ Return(t)

Next ==
    \/ Compile
    \/ Load
    \/ \E t \in DOMAIN pc :
          \/ \E b \in Bufs, o \in Offsets, v \in VAs : Call(t, b, o, v)
          \/ Disasm(t)

Spec == Init /\ [][Next]_vars

\* Two callers of one decoder built from the manual with every optional row
\* left out
InitConc == InitProgram({Text({})}, {1, 2})

NextConc ==
    \/ Compile
    \/ Load
    \/ \E t \in DOMAIN pc :
          \/ \E b \in ConcBufs, o \in Offsets, v \in VAs : Call(t, b, o, v)
          \/ Disasm(t)

SpecConc == InitConc /\ [][NextConc]_vars

\* disasm(bytez, offset, va) run from entry to exit with nothing in between:
\* what lines 63-77 return or raise on decoder d
disasm_alone(d, b, o, v) ==
    IF o >= Len(b)
    THEN [kind |-> "raise", exc |-> "IndexError", op |-> NoneOpcode]
    ELSE LET size == BitAnd(IntBits(b[o + 1]), IntBits(3)) = IntBits(3)
             u == unpack_from(d.fmt[size], b, o)
             f == lookup(d.instrs[size], u.ival)
             m == make_opers(f.fields, u.ival, v)
         IN  IF ~u.ok
             THEN [kind |-> "raise", exc |-> "struct.error", op |-> NoneOpcode]
             ELSE IF f = NoneIns
             THEN [kind |-> "raise", exc |-> "InvalidInstruction", op |-> NoneOpcode]
             ELSE IF ~m.ok
             THEN [kind |-> "raise", exc |-> m.exc, op |-> NoneOpcode]
             ELSE [kind |-> "opcode", exc |-> "",
                   op |-> disasm_record(PyInt(v), PyStr(f.opcode), PyStr(f.name),
                                        PyInt(IF size THEN 4 ELSE 2),
                                        PyTuple(m.opers), PyFlags(f.flags))]

(***************************************************************************)
(* What the claims speak of.                                               *)
(***************************************************************************)
Callers == DOMAIN pc

\* The entries of the decoder's table for a width class
TableEntries(size) ==
    UNION {dis.instrs[size][i].entries : i \in 1..Len(dis.instrs[size])}

\* (word & mask) == value
Matches(e, word) == BitAnd(word, e.mask) = e.value

\* The call of caller t has read its instruction word
WordRead(t) ==
    \/ pc[t] \in {"lookup", "build", "done"}
    \/ pc[t] = "raised" /\ ret[t].exc \notin {"IndexError", "struct.error"}

\* The call of caller t has run the loop over the masks
LookedUp(t) ==
    \/ pc[t] \in {"build", "done"}
    \/ pc[t] = "raised" /\ ret[t].exc \notin {"IndexError", "struct.error"}

\* The call of caller t has selected an entry
Selected(t) == found[t] # NoneIns

\* The call of caller t has built, or tried to build, its operands
Built(t) ==
    \/ pc[t] = "done"
    \/ pc[t] = "raised" /\ ret[t].exc \in {"AttributeError", "TypeError"}

\* Every Op of a table of the compiler
OpsOf(table) == UNION {{table[i].ops[k] : k \in 1..Len(table[i].ops)} : i \in 1..Len(table)}

(***************************************************************************)
(* Claims about the decoder.                                               *)
(***************************************************************************)
\* C1: the width class of a decoded word is decided by the low two bits of
\* the instruction word as it was read in the configured byte order: the
\* word is taken as 32 bits wide exactly when those two bits are 11, under
\* little-endian and under big-endian alike.
C1_WidthFromLowBitsOfWord ==
    \A t \in Callers :
        WordRead(t) =>
            (opcode_size[t] <=> (BitAnd(ival[t], IntBits(3)) = IntBits(3)))

\* C2: a call with an address that is not a multiple of 2 fails before any
\* lookup: it never reaches the table and never returns a decoded
\* instruction.
C2_MisalignedNeverLooksUp ==
    \A t \in Callers :
        (pc[t] # "idle" /\ va[t] % 2 # 0) =>
            /\ pc[t] \notin {"lookup", "build", "done"}
            /\ ret[t].kind # "opcode"

\* C3: once the word is read, the call raises the invalid-instruction error
\* exactly when no entry of the table for its width class satisfies
\* (word & mask) == value, and whenever some entry does it returns a record
\* instead of raising.
C3_InvalidIffNoMatch ==
    \A t \in Callers :
        (WordRead(t) /\ pc[t] \in {"done", "raised"}) =>
            LET matching == {e \in TableEntries(opcode_size[t]) : Matches(e, ival[t])}
            IN  /\ (ret[t].kind = "raise" /\ ret[t].exc = "InvalidInstruction")
                       <=> (matching = {})
                /\ (matching # {}) => ret[t].kind = "opcode"

\* C4, as the specification states it: when mask(A) is a proper subset of
\* mask(B) and the word matches both, the call selects B.
C4_SelectsTheSuperset ==
    \A t \in Callers :
        Selected(t) =>
            \A A \in TableEntries(opcode_size[t]), B \in TableEntries(opcode_size[t]) :
                (MaskSubset(A.mask, B.mask) /\ A.mask # B.mask
                 /\ Matches(A, ival[t]) /\ Matches(B, ival[t]))
                    => found[t] = B

\* C4, amended: when mask(A) is a proper subset of mask(B) and the word
\* matches both, the call never selects A; it selects a matching entry
\* whose mask has at least as many set bits as mask(B), B itself or one
\* tried before it.
C4_NeverTheSubset ==
    \A t \in Callers :
        Selected(t) =>
            \A A \in TableEntries(opcode_size[t]), B \in TableEntries(opcode_size[t]) :
                (MaskSubset(A.mask, B.mask) /\ A.mask # B.mask
                 /\ Matches(A, ival[t]) /\ Matches(B, ival[t]))
                    => /\ found[t] # A
                       /\ Matches(found[t], ival[t])
                       /\ count_bits(found[t].mask) >= count_bits(B.mask)

\* C4's case: a word that matches a chain A, B, C of ever larger masks has
\* been looked up, and the entry selected is neither A nor B
C4_ChainLookedUp ==
    \E t \in Callers :
        /\ Selected(t)
        /\ \E A \in TableEntries(opcode_size[t]), B \in TableEntries(opcode_size[t]) :
              /\ MaskSubset(A.mask, B.mask) /\ A.mask # B.mask
              /\ Matches(A, ival[t]) /\ Matches(B, ival[t])
              /\ MaskSubset(B.mask, found[t].mask) /\ B.mask # found[t].mask

\* C5: decoding the word equal to the value of an entry of the compiled
\* table, in that entry's width class, selects that entry; the made J and
\* JR and the JAL and JALR they were copied from included.
C5_ValueDecodesToItself ==
    \A t \in Callers :
        LookedUp(t) =>
            \A i \in 1..Len(instructions) :
                (instructions[i].value = ival[t]
                 /\ instr_size(instructions[i]) = opcode_size[t])
                    => found[t] = instructions[i]

(***************************************************************************)
(* Claims about the compiler.                                              *)
(***************************************************************************)
\* C6: every Op the compiler makes has value & mask == value, that is
\* value & ~mask == 0, whatever the row's fields and constant tokens.
C6_ValueInsideMask ==
    \A op \in OpsOf(cur) \cup OpsOf(instrs) :
        /\ BitAnd(op.value, op.mask) = op.value
        /\ BitClear(op.value, op.mask) = {}

C8_RecordAttributes ==
    \A t \in Callers :
        pc[t] = "done" =>
            /\ ret[t].op.mnem = PyStr(found[t].name)
            /\ ret[t].op.size = PyInt(IF opcode_size[t] THEN 4 ELSE 2)
            /\ ret[t].op.opers.t = "tuple"
            /\ ret[t].op.iflags = PyFlags(found[t].flags)
            /\ ret[t].op.va = PyInt(va[t])

\* The number a set of bit positions spells
RECURSIVE BitsInt(_)
BitsInt(S) ==
    IF S = {} THEN 0
    ELSE LET b == CHOOSE x \in S : TRUE IN Pow2(b) + BitsInt(S \ {b})

\* (word >> shift) & mask of an operand field, a compressed register's
\* number raised by 8
field_of_word(word, f) ==
    BitsInt(BitAnd(ShiftRight(word, f.shift), IntBits(f.mask)))
        + (IF f.type = "C_REG" THEN 8 ELSE 0)

\* C9: for every operand field of the entry selected, the call returns a
\* record whose operand holds (word >> shift) & mask, 8 more for a
\* compressed register.
C9_OperandHoldsItsField ==
    \A t \in Callers :
        (Built(t) /\ Len(found[t].fields.items) > 0) =>
            /\ ret[t].kind = "opcode"
            /\ \E opers \in {ret[t].op.opers, ret[t].op.size} :
                  /\ opers.t = "tuple"
                  /\ Len(opers.items) = Len(found[t].fields.items)
                  /\ \A i \in 1..Len(opers.items) :
                        opers.items[i].n = field_of_word(ival[t], found[t].fields.items[i])

(***************************************************************************)
(* Claims about callers side by side.                                      *)
(***************************************************************************)
\* C10: disasm keeps nothing between calls and shares nothing among them:
\* with two callers interleaved step by step on one decoder, the decoder
\* stays what its construction made it, and what a call returns or raises
\* is what the same call returns or raises run alone.
C10_SameAsRunAlone ==
    phase = "loaded" =>
        /\ dis.fmt = setEndian(dis.endian)
        /\ dis.instrs = setCategories(instructions, dis.psize).instrs
        /\ \A t \in Callers :
              pc[t] \in {"done", "raised"} =>
                  ret[t] = disasm_alone(dis, bytez[t], offset[t], va[t])

\* C10's case: one caller has its result while the other, given other
\* bytes, is between reading its word and building its record
C10_TwoCallsInterleaved ==
    \E t, u \in Callers :
        /\ t # u
        /\ pc[t] \in {"done", "raised"} /\ WordRead(t)
        /\ pc[u] \in {"lookup", "build"}
        /\ ival[t] # ival[u]

(***************************************************************************)
(* Claims about the compiler.                                              *)
(***************************************************************************)
\* A scraped table is about to be merged, and it holds a name the merged
\* table already has in the same category
MergeDuplicate ==
    /\ phase \in {"priv", "rvc"}
    /\ rowi > Len(text[phase])
    /\ \E op \in OpsOf(cur) : op.name \in OpNames(CatOps(instrs, op.cat))

\* C11: a duplicate instruction name within one Category is a compile-time
\* error also when the two definitions come from different source tables:
\* the merge of a table that repeats a name of the merged table aborts the
\* compile, and the earlier definition is not replaced.
C11_DuplicateAcrossTablesAborts ==
    [][MergeDuplicate => phase' = "abort" /\ instrs' = instrs]_vars

\* C12: compilation is all-or-nothing: a run of main that completes has
\* written both generated files in full, and a run that aborts has written
\* nothing, the files on disk being the ones that were there before the run.
C12_AbortWritesNothing ==
    /\ phase = "exported" => files = [const_gen |-> "full", instr_table |-> "full"]
    /\ phase = "abort" => files = [const_gen |-> "old", instr_table |-> "old"]

\* The row a step of the scraper is about to take, as find_form is given it
\* and as find_form has rewritten it when it stops
NextRow == text[phase][rowi]
RowGiven == [i \in 1..Len(NextRow.cells) |-> Plain(NextRow.cells[i])]
RowMatched == find_form(NextRow.cells, forms).row

\* The Instructions a step adds to the table being scraped
AddedOps == OpsOf(cur') \ OpsOf(cur)

\* Form k of the catalog is the first one the row goes with
FirstCompatible(row, k) ==
    /\ form_matches(row, forms[k])
    /\ \A j \in 1..(k - 1) : ~form_matches(row, forms[j])

\* C13: the Form an instruction row is given is the first Form of the
\* catalog, in the catalog's order, that has the row's field count and is
\* compatible with it at every position; no later Form is given when an
\* earlier one is compatible with the same row, and a Form compatible with
\* the row before any run of constants is collapsed is preferred to
\* collapsing.
C13_FirstCompatibleForm ==
    [][\A op \in AddedOps :
          /\ \E k \in 1..Len(forms) :
                forms[k].name = op.form /\ FirstCompatible(RowMatched, k)
          /\ (\E k \in 1..Len(forms) :
                 form_matches(rewrite_fields(RowGiven).fields, forms[k]))
             => RowMatched = rewrite_fields(RowGiven).fields]_vars

\* An Instruction is in the table with the earlier of two Forms that are both
\* compatible with its row
C13_TwoFormsCompatible ==
    /\ phase \in TablePhases
    /\ \E i \in 1..(rowi - 1), op \in OpsOf(cur), j, k \in 1..Len(forms) :
          LET row == text[phase][i]
          IN  /\ row.kind = "instr"
              /\ op.name = row.name
              /\ j < k
              /\ op.form = forms[j].name
              /\ form_matches(find_form(row.cells, forms).row, forms[j])
              /\ form_matches(find_form(row.cells, forms).row, forms[k])

\* The scraper is about to take an instruction row
AtInstrRow ==
    /\ phase \in TablePhases
    /\ rowi <= Len(text[phase])
    /\ NextRow.kind = "instr"

\* C14: whenever no Form of the catalog matches an instruction row, directly
\* or after the rewrites and the collapsing of runs, the row ends the compile
\* with the no-form-match error, whatever the shape of the row (rows the
\* rewrites coalesced included), never with another error.
C14_NoMatchIsNoFormError ==
    [][(AtInstrRow /\ find_form(NextRow.cells, forms).status # "found")
          => (phase' = "abort" /\ exc' = "Exception: no form match found")]_vars

\* The kind the classification rules give a token, rule by rule: the
\* immediate family, the literals and funct#, the register family (plain and
\* prime), then opcode, op and rm; "none" for a token outside the grammar
C15_Kind(tok) ==
    IF Len(tok) = 1 /\ tok[1] \in
           {"imm", "imm[11:0]", "imm[20|10:1|11|19:12]", "imm[5]", "offset",
            "jump target", "shamt", "fm", "pred", "succ", "aq", "rl", "csr", "uimm",
            "uimm[5:3]", "uimm[2|6]", "uimm[7:6]", "nzimm[5]", "nzimm[4:0]",
            "nzuimm[5]"}
    THEN "IMM"
    ELSE IF \A i \in 1..Len(tok) : tok[i] \in {"0", "1", "2", "3", "4", "5", "6", "7", "8", "9"}
    THEN "CONST"
    ELSE IF Len(tok) = 1 /\ tok[1] \in {"funct2", "funct3", "funct4", "funct6", "funct7"}
    THEN "CONST"
    ELSE IF Len(tok) = 1 /\ tok[1] \in {"\\rsoneprime", "\\rstwoprime", "\\rdprime"}
    THEN "C_REG"
    ELSE IF Len(tok) = 1 /\ tok[1] \in
           {"rs1", "rs2", "rd", "rd/rs1", "rs1$\\neq$0", "rs2$\\neq$0", "rd$\\neq$0",
            "rs1/rd$\\neq$0"}
    THEN "REG"
    ELSE IF tok = <<"opcode">> THEN "OPCODE"
    ELSE IF tok = <<"op">> THEN "C_OPCODE"
    ELSE IF tok = <<"rm">> THEN "RM"
    ELSE "none"

\* The fields are the cells of the row, each with the kind of its token
C15_Typed(fields, cells) ==
    /\ Len(fields) = Len(cells)
    /\ \A i \in 1..Len(cells) : fields[i].type = C15_Kind(cells[i][2])

\* C15: every token is given the kind of the first rule it matches
\* (immediate family: Immediate; decimal and binary literals and funct#:
\* Constant; register family: register operand, compressed register operand
\* for a prime token; opcode: Opcode; op: C-opcode; rm: rounding mode), in
\* the Forms of the catalog and in the Instructions of the table alike, and
\* a row with a token that matches no rule ends the compile with the
\* unknown-field error instead of getting a default kind.
C15_KindOfEveryToken ==
    [][/\ (phase \in TablePhases /\ rowi <= Len(text[phase]) /\ NextRow.kind = "form")
          => IF \E i \in 1..Len(NextRow.cells) : C15_Kind(NextRow.cells[i][2]) = "none"
             THEN phase' = "abort" /\ exc' = "Exception: Unknown field type"
             ELSE \E k \in 1..Len(forms') :
                     /\ forms'[k].name = NextRow.name
                     /\ C15_Typed(forms'[k].fields, NextRow.cells)
       /\ \A op \in AddedOps : AtInstrRow => C15_Typed(op.fields, NextRow.cells)
       /\ phase = "rvc"
          => /\ Len(forms) = Len(text.rvcforms)
             /\ \A k \in 1..Len(forms) :
                   C15_Typed(forms[k].fields, text.rvcforms[k].cells)]_vars

\* The compressed table is being scraped with a catalog that holds plain and
\* prime registers, immediates, constants and the C-opcode, and an
\* Instruction with a field given by a literal is in the table
C15_KindsInCatalog ==
    /\ phase = "rvc"
    /\ {forms[k].fields[i].type : k \in 1..Len(forms), i \in 1..4}
          = {"CONST", "IMM", "REG", "C_REG", "C_OPCODE"}
    /\ \E op \in OpsOf(cur) :
          \E i \in 1..Len(op.fields) :
             op.fields[i].type = "CONST" /\ op.fields[i].value = StrVal(<<"0">>)

\* The row the scraper is about to take is annotated as a hint only
AtHintRow ==
    /\ AtInstrRow
    /\ \E i \in 1..Len(note_texts(NextRow.notes)) : note_texts(NextRow.notes)[i] = "HINT"

\* C17: an instruction row annotated with the hint-only marker is dropped
\* whatever its cells hold: taking it adds no Instruction, does not abort
\* the compile, and leaves the table, the Form catalog, the current
\* categories and the column header as they were.
C17_HintRowDropped ==
    [][AtHintRow => /\ phase' = phase
                    /\ rowi' = rowi + 1
                    /\ UNCHANGED <<scraper, instrs>>]_vars

\* The categories the annotation of the row names: each name of its first
\* word, with RV in front and the letter of the table's extension behind
C18_Named ==
    LET letter == CASE phase = "priv" -> "I" [] phase = "rvc" -> "C" [] OTHER -> ""
        name(part) == (IF part[1] = "RV" THEN "" ELSE "RV") \o Join(part) \o letter
    IN  UNION {{name(NextRow.notes[n].cats[i]) : i \in 1..Len(NextRow.notes[n].cats)} :
                  n \in 1..Len(NextRow.notes)}

C19_Section ==
    LET before == {i \in 1..(rowi - 1) : text[phase][i].kind = "cat"}
        header == text[phase][SetMax(before)]
    IN  IF before = {} THEN {}
        ELSE {(IF header.cells[i][1] = "RV" THEN "" ELSE "RV")
                  \o Join(header.cells[i]) \o header.ext : i \in 1..Len(header.cells)}

\* The default category of the table being scraped
C19_Default ==
    CASE phase = "priv" -> {"RV32I"} [] phase = "rvc" -> {"RV32C"} [] OTHER -> {}

\* C19: an instruction row without a category in its annotation is added to
\* exactly the categories of the most recent category header before it in
\* its table; only when there is none, to the default category of the table
\* (RV32I for the privileged table); and when there is neither, the compile
\* aborts and no Instruction is added.
C19_UnannotatedRowCategories ==
    [][(AtInstrRow /\ ~AtHintRow /\ C18_Named = {})
          => LET expected == IF C19_Section # {} THEN C19_Section ELSE C19_Default
             IN  IF expected = {} THEN phase' = "abort" /\ cur' = cur
                 ELSE phase' = phase
                      => /\ {op.cat : op \in AddedOps} = expected
                         /\ Cardinality(AddedOps) = Cardinality(expected)
                         /\ \A op \in AddedOps : op.name = NextRow.name]_vars

\* Two headers were seen in one table, and a row after the second is in the
\* category of the second only
C19_SecondHeaderInEffect ==
    /\ phase = "unpriv"
    /\ cur_cats = <<"RV64I">>
    /\ "ADDIW" \in OpNames(CatOps(cur, "RV64I"))
    /\ "ADDIW" \notin OpNames(CatOps(cur, "RV32I"))
    /\ "ADDI" \in OpNames(CatOps(cur, "RV32I"))

\* The bits of the instruction word a field covers: field.mask << field.shift
C20_Range(field) == {field.shift + b : b \in IntBits(field.mask)}

\* new is old with the destination register made the constant zero, in the
\* same category: the same fields but for rd, which keeps its width and
\* shift; the mask of old with the bits of rd added; the value of old
C20_JumpOf(new, old) ==
    /\ new.cat = old.cat
    /\ new.form = old.form
    /\ Len(new.fields) = Len(old.fields)
    /\ \E r \in 1..Len(old.fields) :
          /\ old.fields[r].value = StrVal(<<"rd">>)
          /\ new.fields[r].type = "CONST"
          /\ new.fields[r].value = IntVal(0)
          /\ new.fields[r].bits = old.fields[r].bits
          /\ new.fields[r].shift = old.fields[r].shift
          /\ new.fields[r].mask = old.fields[r].mask
          /\ \A i \in 1..Len(old.fields) : i # r => new.fields[i] = old.fields[i]
          /\ new.mask = old.mask \cup C20_Range(old.fields[r])
          /\ new.value = old.value
          /\ new.value \cap C20_Range(old.fields[r]) = {}

\* C20: every category of the general table that holds JAL (JALR) also
\* holds J (JR), a copy of it whose rd field is the constant zero of the
\* same width and shift: mask(J) = mask(JAL) | (rd.mask << rd.shift),
\* value(J) = value(JAL), and the bits of rd are zero in value(J).
C20_JumpsSynthesized ==
    \A c \in 1..Len(instrs) : \A k \in 1..Len(JumpPairs) :
        JumpPairs[k][1] \in OpNames(instrs[c].ops)
            => /\ JumpPairs[k][2] \in OpNames(instrs[c].ops)
               /\ C20_JumpOf(GetOp(instrs, instrs[c].cat, JumpPairs[k][2]),
                             GetOp(instrs, instrs[c].cat, JumpPairs[k][1]))

\* The general table is merged with JAL and J, JALR and JR in RV32I
C20_JumpsInTable ==
    /\ phase = "priv"
    /\ {"JAL", "J", "JALR", "JR"} \subseteq OpNames(CatOps(instrs, "RV32I"))

(***************************************************************************)
(* Claims about the decoder's table.                                       *)
(***************************************************************************)
\* C16: once a RiscVDisasm is constructed, the masks of each width class
\* are in the order of non-increasing population count: of two masks, the
\* one disasm's loop tries first has at least as many set bits.
C16_MasksByDescendingPopcount ==
    phase = "loaded" =>
        \A size \in BOOLEAN :
            \A i, j \in 1..Len(dis.instrs[size]) :
                i < j => count_bits(dis.instrs[size][i].mask)
                             >= count_bits(dis.instrs[size][j].mask)

\* A decoder is constructed whose 32-bit table has five masks or more, one
\* of them with fewer set bits than a mask of smaller value
C16_SeveralMasksLoaded ==
    /\ phase = "loaded"
    /\ Len(dis.instrs[TRUE]) >= 5
    /\ \E i, j \in 1..Len(dis.instrs[TRUE]) :
          /\ count_bits(dis.instrs[TRUE][i].mask) < count_bits(dis.instrs[TRUE][j].mask)
          /\ IntLess(dis.instrs[TRUE][j].mask, dis.instrs[TRUE][i].mask)

(***************************************************************************)
(* Claims about the fields and the encoding of an Instruction.             *)
(***************************************************************************)
\* Every list of fields get_field_info has made so far: those of the Forms
\* of the catalog and of the Instructions scraped and merged
FieldLists ==
    {forms[k].fields : k \in 1..Len(forms)}
        \cup {op.fields : op \in OpsOf(cur) \cup OpsOf(instrs)}

\* The fields cover an instruction word of 16 or 32 bits from its top bit
\* down to bit 0, each bit once
C21_Tiles(fields) ==
    /\ Len(fields) > 0
    /\ fields[Len(fields)].shift = 0
    /\ \A i \in 1..(Len(fields) - 1) :
          fields[i].shift = fields[i + 1].shift + fields[i + 1].bits
    /\ fields[1].shift + fields[1].bits \in {16, 32}
    /\ \A i \in 1..Len(fields) :
          fields[i].bits > 0 /\ fields[i].mask = Pow2(fields[i].bits) - 1

\* C21: the fields get_field_info makes of a row, against a header of
\* strictly descending bit positions, tile the instruction width: the last
\* field has shift 0, every field starts where the next one ends, the
\* widths add up to the instruction width, and every mask is 2^bits - 1.
C21_FieldsTileTheWord ==
    \A fields \in FieldLists : C21_Tiles(fields)

\* The element of a row is a literal-binary token
C22_Binary(row, i) == ~row[i].list /\ binvaluepat(field_name(row[i]))

\* The runs of adjacent literal-binary tokens of a row among the positions
\* from..Len(row), as <<first, last>>, and the longest of them (the leftmost
\* of the longest)
C22_Runs(row, from) ==
    {r \in (from..Len(row)) \X (from..Len(row)) :
        /\ r[1] <= r[2]
        /\ \A i \in r[1]..r[2] : C22_Binary(row, i)
        /\ r[1] = from \/ ~C22_Binary(row, r[1] - 1)
        /\ r[2] = Len(row) \/ ~C22_Binary(row, r[2] + 1)}
C22_Longest(row, from) ==
    CHOOSE r \in C22_Runs(row, from) :
        \A o \in C22_Runs(row, from) :
            \/ o[2] - o[1] < r[2] - r[1]
            \/ o[2] - o[1] = r[2] - r[1] /\ r[1] <= o[1]

\* A search (with the first field left out, or not) gives a run to collapse
C22_HasRun(row, from) == \E r \in C22_Runs(row, from) : r[2] > r[1]

\* The row with its longest run made one composite token
C22_Collapsed(row, from) ==
    collapse_fields(row, C22_Longest(row, from)[1], C22_Longest(row, from)[2] + 1)

\* C22: when no Form matches a row, find_form collapses the longest run of
\* adjacent literal-binary tokens, searched first without the first field
\* and then with it, into one token of the summed width and the concatenated
\* bits, and gives what matching the collapsed row gives, wherever the run
\* lies in the row.
C22_LongestRunCollapsed ==
    AtInstrRow =>
        LET rw == rewrite_fields(RowGiven)
        IN  (rw.exc = "" /\ first_form(rw.fields, forms) = 0)
            => find_form_row(RowGiven, forms) =
                  IF C22_HasRun(rw.fields, 2)
                  THEN find_form_row(C22_Collapsed(rw.fields, 2), forms)
                  ELSE IF C22_HasRun(rw.fields, 1)
                  THEN find_form_row(C22_Collapsed(rw.fields, 1), forms)
                  ELSE [status |-> "noform", form |-> "", row |-> rw.fields]


\* The row find_form calls itself with, << >> when it returns or raises
\* without a retry
C23_Retry(row) ==
    LET rw == rewrite_fields(row)
        run1 == binary_run(rw.fields, 2, 0)
        run0 == binary_run(rw.fields, 1, 0)
    IN  IF rw.exc # "" \/ first_form(rw.fields, forms) # 0 THEN << >>
        ELSE IF run1.err THEN << >>
        ELSE IF run1.start # 0 /\ run1.stop # 0 /\ run1.stop - run1.start > 1
        THEN collapse_fields(rw.fields, run1.start, run1.stop)
        ELSE IF run0.err THEN << >>
        ELSE IF run0.start # 0 /\ run0.stop # 0 /\ run0.stop - run0.start > 1
        THEN collapse_fields(rw.fields, run0.start, run0.stop)
        ELSE << >>

\* Every retry from this row on is on a row with fewer fields, and there
\* are at most depth of them
RECURSIVE C23_Shrinks(_, _)
C23_Shrinks(row, depth) ==
    \/ C23_Retry(row) = << >>
    \/ /\ depth > 0
       /\ Len(C23_Retry(row)) < Len(row)
       /\ C23_Shrinks(C23_Retry(row), depth - 1)

\* Rows of up to C23_MaxFields fields, each a bit or a register
C23_MaxFields == 4
C23_Rows ==
    UNION {[1..n -> {Plain(<<1, <<"0">> >>), Plain(<<5, <<"rs1">> >>)}] : n \in 1..C23_MaxFields}

\* C23: find_form ends on every row against every catalog: each retry is on
\* a row with strictly fewer fields than the row it came from, and a row is
\* retried fewer times than it has fields.
C23_RetriesShrink ==
    AtInstrRow =>
        \A row \in {RowGiven} \cup C23_Rows :
            /\ C23_Shrinks(row, Len(row) - 1)
            /\ Len(find_form_row(row, forms).row) <= Len(row)

\* C23 witness: a row is matched again after a first and after a second
\* collapse of a run, and the compile goes on to the row after it.
C23_RetriedTwice ==
    /\ phase \in TablePhases
    /\ rowi > 1
    /\ rowi - 1 <= Len(text[phase])
    /\ text[phase][rowi - 1].kind = "instr"
    /\ LET row == [i \in 1..Len(text[phase][rowi - 1].cells) |-> Plain(text[phase][rowi - 1].cells[i])]
       IN  /\ C23_Retry(row) # << >>
           /\ C23_Retry(C23_Retry(row)) # << >>


\* (v >> field.shift) & field.mask
C24_At(v, field) ==
    ShiftRight({b \in v : b < field.shift + field.bits}, field.shift)

\* The number a constant field stands for
C24_Constant(field) ==
    IF field.value.isint THEN IntBits(field.value.n)
    ELSE IF binvaluepat(field.value.s) THEN ParseBin(field.value.s)
    ELSE IntBits(ParseDec(field.value.s))

C24_Placed(op) ==
    \A i \in 1..Len(op.fields) :
        IF op.fields[i].type \in ConstTypes
        THEN /\ C24_At(op.value, op.fields[i]) = C24_Constant(op.fields[i])
             /\ C24_At(op.mask, op.fields[i]) = IntBits(op.fields[i].mask)
        ELSE /\ C24_At(op.value, op.fields[i]) = {}
             /\ C24_At(op.mask, op.fields[i]) = {}

\* C24: get_instr_mask puts every constant at the position of its own field:
\* for a constant field f, (value >> f.shift) & f.mask is the number the
\* constant stands for and (mask >> f.shift) & f.mask is f.mask; for any
\* other field both are zero.
C24_ConstantsAtTheirFields ==
    \A op \in OpsOf(cur) \cup OpsOf(instrs) : C24_Placed(op)


(***************************************************************************)
(* Claims about the exported table and what the decoder selects from it.   *)
(***************************************************************************)
\* C25: every entry of the exported table that is tagged with several
\* categories has, in each of those categories of the compiled table, the
\* mask, the value and the fields of the exported encoding.
C25_MergedEntriesAgree ==
    phase = "exported" =>
        \A i \in 1..Len(instructions) :
            LET entry == riscv_name_lookup(instrs)[i]
            IN  Len(entry.cats) > 1 =>
                    \A j \in 1..Len(entry.cats) :
                        LET op == GetOp(instrs, entry.cats[j], entry.old_name)
                        IN  /\ op.mask = instructions[i].mask
                            /\ op.value = instructions[i].value
                            /\ operand_str(operand_list(op.fields)) = instructions[i].fields


\* The xlens an exported entry is tagged with
C26_Xlens(entry) == {entry.cat[i].xlen : i \in 1..Len(entry.cat)}

\* C26: a decoder of pointer size p selects only instructions that have a
\* category of xlen 8 * p: every entry of its table has one, and so has the
\* entry every call selects and the entry behind every opcode it returns.
C26_SelectsOwnXlenOnly ==
    phase = "loaded" =>
        /\ \A size \in BOOLEAN : \A e \in TableEntries(size) :
               8 * dis.psize \in C26_Xlens(e)
        /\ \A t \in Callers :
               (pc[t] \in {"build", "done"} /\ Selected(t))
                   => 8 * dis.psize \in C26_Xlens(found[t])

\* C26 witness: a call has run the loop over the masks with a word that an
\* exported entry of the word's width class matches, the entry has no
\* category of the decoder's xlen, and the call raised InvalidInstruction.
C26_ForeignEntryPassedOver ==
    /\ phase = "loaded"
    /\ \E t \in Callers :
          /\ pc[t] = "raised"
          /\ ret[t].exc = "InvalidInstruction"
          /\ \E i \in 1..Len(instructions) :
                /\ instr_size(instructions[i]) = opcode_size[t]
                /\ Matches(instructions[i], ival[t])
                /\ 8 * dis.psize \notin C26_Xlens(instructions[i])


\* C27: the bytes archGetNopInstr returns, given to archParseOpcode of the
\* module's own decoder (little-endian, pointer size 4) at offset 0, decode
\* as the word 0x00000013: one instruction of 4 bytes, ADDI, with every
\* operand zero.
C27_NopDecodesAsAddi ==
    (phase = "loaded" /\ dis.endian = ENDIAN_LSB /\ dis.psize = 4) =>
        \A t \in Callers :
            (bytez[t] = archGetNopInstr /\ offset[t] = 0) =>
                /\ pc[t] # "raised"
                /\ WordRead(t) => opcode_size[t] /\ ival[t] = IntBits(19)
                /\ pc[t] \in {"build", "done"} =>
                      /\ found[t].name = "ADDI"
                      /\ \A i \in 1..Len(found[t].fields.items) :
                            field_of_word(ival[t], found[t].fields.items[i]) = 0
                /\ pc[t] = "done" => ret[t].kind = "opcode"

====
